---- MODULE Spec2Model ----
(***************************************************************************)
(* Model of the tourism-data client of src/lib/api/tour-api.ts: the typed  *)
(* error (TourAPIError), the retrying transport (fetchWithRetry), the      *)
(* envelope parser (parseAPIResponse) and the client operations built on   *)
(* them.  One client call at a time runs from "idle" to "done".            *)
(*                                                                         *)
(* The statistics aggregator of src/lib/api/stats-api.ts (getRegionStats,  *)
(* getTypeStats, getStatsSummary) has a specification of its own,          *)
(* SpecStats, in which a client call is a promise that settles; so have    *)
(* getAreaBasedList called with arguments (SpecList), several transport    *)
(* calls under way at once (SpecConcurrent) and the parser (SpecParser).   *)
(*                                                                         *)
(* The source's Korean message literals are written in English here (the   *)
(* parser of this language accepts ASCII only); every other string is the  *)
(* source's.                                                               *)
(***************************************************************************)
EXTENDS Integers, Sequences, FiniteSets, TLC

\* ---------------------------------------------------------------- bounds
\* longest argument string drawn as an input
MaxLen == 2
\* longest content type id drawn as an input (type ids are shorter than ids)
MaxTypeIdLen == 1
\* most records an envelope carries
MaxItems == 2
\* most area codes the area-code lookup answers with
MaxRegions == 3
\* most transport calls under way at once
MaxCalls == 2
\* the getBookmark calls of one button that may be under way at once
MaxLoads == 2

\* ------------------------------------------------------------- constants
REQUEST_TIMEOUT == 30000
MAX_RETRIES == 3
RETRY_DELAYS == <<1000, 2000, 4000>>
DEFAULT_MOBILE_OS == "ETC"
DEFAULT_MOBILE_APP == "MyTrip"
DEFAULT_TYPE == "json"
DEFAULT_NUM_OF_ROWS == 10
DEFAULT_PAGE_NO == 1

\* JavaScript's undefined, for optional strings
Undefined == "undefined"
\* an absent statusCode (statusCode?: number)
NoStatus == 0

TourAPIErrorType ==
    {"API_KEY_MISSING", "API_KEY_INVALID", "NETWORK_ERROR", "TIMEOUT_ERROR",
     "HTTP_ERROR", "API_ERROR", "PARSE_ERROR", "VALIDATION_ERROR", "UNKNOWN_ERROR"}

\* ------------------------------------------------------- string helpers
WhiteSpace == {" ", "\t", "\n"}

\* String.prototype.includes
Includes(s, sub) ==
    \E i \in 1..(Len(s) - Len(sub) + 1) : SubSeq(s, i, i + Len(sub) - 1) = sub

RECURSIVE TrimStart(_)
TrimStart(s) ==
    IF Len(s) > 0 /\ SubSeq(s, 1, 1) \in WhiteSpace
    THEN TrimStart(SubSeq(s, 2, Len(s)))
    ELSE s

RECURSIVE TrimEnd(_)
TrimEnd(s) ==
    IF Len(s) > 0 /\ SubSeq(s, Len(s), Len(s)) \in WhiteSpace
    THEN TrimEnd(SubSeq(s, 1, Len(s) - 1))
    ELSE s

\* String.prototype.trim
Trim(s) == TrimEnd(TrimStart(s))

\* !s for an optional string
Falsy(s) == s = Undefined \/ s = ""

\* ------------------------------------------------------------ errors
\* new TourAPIError(message, statusCode, originalError, errorType); the
\* original error is kept by its name
TourAPIError(message, statusCode, originalError, errorType) ==
    [name |-> "TourAPIError", message |-> message, statusCode |-> statusCode,
     originalError |-> originalError, errorType |-> errorType]

\* an error that is not a TourAPIError (TypeError, Error, AbortError, SyntaxError)
PlainError(name, message) ==
    [name |-> name, message |-> message, statusCode |-> NoStatus,
     originalError |-> Undefined, errorType |-> Undefined]

NoError == PlainError("none", "")

\* the errorType parameter's default value
DefaultErrorType == "UNKNOWN_ERROR"

\* ------------------------------------------------------------ inputs
Chars == {" ", "a"}

RECURSIVE StringsOfLen(_)
StringsOfLen(n) ==
    IF n = 0 THEN {""} ELSE {s \o c : s \in StringsOfLen(n - 1), c \in Chars}

\* the argument strings a caller may pass
Strings == UNION {StringsOfLen(n) : n \in 0..MaxLen}

\* the content type ids a caller may pass
TypeIdStrings == UNION {StringsOfLen(n) : n \in 0..MaxTypeIdLen}

\* process.env: each variable unset or holding a credential
Envs ==
    [NEXT_PUBLIC_TOUR_API_KEY : {Undefined, "KEY_A"}, TOUR_API_KEY : {Undefined, "KEY_B"}]

\* the environment before any credential is configured
NoCredentials == [NEXT_PUBLIC_TOUR_API_KEY |-> Undefined, TOUR_API_KEY |-> Undefined]

\* what one fetch attempt may answer: a Response (status, statusText) ...
Responses ==
    {[status |-> 200, statusText |-> "OK"],
     [status |-> 401, statusText |-> "Unauthorized"],
     [status |-> 403, statusText |-> "Forbidden"],
     [status |-> 408, statusText |-> "Request Timeout"],
     [status |-> 500, statusText |-> "Internal Server Error"],
     [status |-> 511, statusText |-> "Network Authentication Required"]}

\* ... or a rejection: fetch rejects a network-level failure (DNS, connection
\* refused) with a TypeError; any other rejection is a plain Error
Rejections ==
    {PlainError("TypeError", "fetch failed"), PlainError("Error", "socket hang up")}

AbortError == PlainError("AbortError", "This operation was aborted")

\* a JSON value in the place of item: undefined, one record (an object, told
\* apart from the others by a number) or an array of records
UndefinedItem == [tag |-> "undefined", id |-> 0, elems |-> <<>>]
Object(i) == [tag |-> "object", id |-> i, elems |-> <<>>]
ArrayOf(elems) == [tag |-> "array", id |-> 0, elems |-> elems]
ItemValues ==
    {UndefinedItem}
    \cup {Object(i) : i \in 1..MaxItems}
    \cup {ArrayOf([j \in 1..n |-> Object(j)]) : n \in 0..MaxItems}
    \cup {ArrayOf([j \in 1..n |-> Object(n + 1 - j)]) : n \in 2..MaxItems}

ResultCodes ==
    {"0000", "SERVICE_KEY_IS_NOT_REGISTERED", "SERVICE_KEY_IS_NOT_VALID",
     "SERVICE_KEY_IS_NULL", "03", "99"}

ResultMsgs == {"", "OK", "NODATA_ERROR"}

\* body is absent or an object; items is absent, the empty string or an object
BodyShapes ==
    {[body |-> Undefined, items |-> Undefined, item |-> UndefinedItem],
     [body |-> "object", items |-> Undefined, item |-> UndefinedItem],
     [body |-> "object", items |-> "", item |-> UndefinedItem]}
    \cup {[body |-> "object", items |-> "object", item |-> i] : i \in ItemValues}

\* { response: { header: { resultCode, resultMsg }, body?: { items?: { item? } } } }
EnvelopesOf(codes, msgs, shapes) ==
    {[kind |-> "envelope", resultCode |-> c, resultMsg |-> m, body |-> b.body,
      items |-> b.items, item |-> b.item] : c \in codes, m \in msgs, b \in shapes}

\* every envelope the parser is tried on
Envelopes == EnvelopesOf(ResultCodes, ResultMsgs, BodyShapes)

BlankEnvelope(kind) ==
    [kind |-> kind, resultCode |-> Undefined, resultMsg |-> Undefined,
     body |-> Undefined, items |-> Undefined, item |-> UndefinedItem]

\* a JSON value without the response key
MalformedEnvelope == BlankEnvelope("malformed")

\* a body that is no JSON at all: response.json() rejects
InvalidJson == BlankEnvelope("invalid-json")

NoData == BlankEnvelope("none")

\* what a 2xx response may carry in a client call: a success envelope of any
\* shape, an error envelope (which has no body), or no envelope at all
Bodies ==
    EnvelopesOf({"0000"}, {"OK"}, BodyShapes)
    \cup EnvelopesOf({"SERVICE_KEY_IS_NOT_REGISTERED", "03"}, {"", "NODATA_ERROR"},
                     {b \in BodyShapes : b.body = Undefined})
    \cup {MalformedEnvelope, InvalidJson}

\* --------------------------------------------------- credential lookup
Thrown(error) == [threw |-> TRUE, error |-> error, value |-> <<>>]
Returned(value) == [threw |-> FALSE, error |-> NoError, value |-> value]

\* a variant that keeps the lookup made when the module was loaded, when no
\* credential was configured yet
getServiceKeyAtLoad(e) ==
    Thrown(TourAPIError("API key is not set.", NoStatus, Undefined, "API_KEY_MISSING"))

\* process.env.NEXT_PUBLIC_TOUR_API_KEY || process.env.TOUR_API_KEY, read
\* from the environment as it is at the call
getServiceKey(e) ==
    LET serviceKey ==
            IF ~Falsy(e.NEXT_PUBLIC_TOUR_API_KEY)
            THEN e.NEXT_PUBLIC_TOUR_API_KEY
            ELSE e.TOUR_API_KEY
    IN  IF Falsy(serviceKey)
        THEN Thrown(TourAPIError("API key is not set.", NoStatus, Undefined,
                                 "API_KEY_MISSING"))
        ELSE Returned(<<serviceKey>>)

\* ------------------------------------------------------------ parser
\* apiResponse.body?.items?.item
OptionalItem(response) ==
    IF response.body = Undefined \/ response.items # "object"
    THEN UndefinedItem
    ELSE response.item

\* a variant that takes every item for an array
NormalisedAsArray(item) == item.elems

\* Array.isArray(item) ? item : [item]
Normalised(item) == IF item.tag = "array" THEN item.elems ELSE <<item>>

\* a variant that forgets one of the key-error codes
IsApiKeyErrorTwoCodes(resultCode) ==
    \/ resultCode = "SERVICE_KEY_IS_NOT_REGISTERED"
    \/ resultCode = "SERVICE_KEY_IS_NOT_VALID"

IsApiKeyError(resultCode) ==
    \/ resultCode = "SERVICE_KEY_IS_NOT_REGISTERED"
    \/ resultCode = "SERVICE_KEY_IS_NOT_VALID"
    \/ resultCode = "SERVICE_KEY_IS_NULL"

ParseErrorType(resultCode) ==
    IF IsApiKeyError(resultCode) THEN "API_KEY_INVALID" ELSE "API_ERROR"

ParseErrorMessage(response) ==
    LET resultMsg == IF Falsy(response.resultMsg) THEN "unknown error"
                     ELSE response.resultMsg
    IN  "API error: " \o resultMsg \o " (code: " \o response.resultCode \o ")"

\* a variant that takes a success envelope without items for an error
parseAPIResponseStrict(response) ==
    IF response.kind = "malformed"
    THEN Thrown(PlainError("TypeError",
                           "Cannot read properties of undefined (reading 'header')"))
    ELSE IF response.resultCode # "0000" \/ OptionalItem(response).tag = "undefined"
    THEN Thrown(TourAPIError(ParseErrorMessage(response), NoStatus, Undefined,
                             ParseErrorType(response.resultCode)))
    ELSE Returned(Normalised(OptionalItem(response)))

parseAPIResponse(response) ==
    IF response.kind = "malformed"
    THEN Thrown(PlainError("TypeError",
                           "Cannot read properties of undefined (reading 'header')"))
    ELSE IF response.resultCode # "0000"
    THEN Thrown(TourAPIError(ParseErrorMessage(response), NoStatus, Undefined,
                             ParseErrorType(response.resultCode)))
    ELSE IF OptionalItem(response).tag = "undefined"
    THEN Returned(<<>>)
    ELSE Returned(Normalised(OptionalItem(response)))

\* ------------------------------------------------------ client operations
ListOperations == {"getAreaCode", "getAreaBasedList", "searchKeyword", "getDetailImage"}
SingleOperations == {"getDetailCommon", "getDetailIntro", "getDetailPetTour"}
Operations == ListOperations \cup SingleOperations

\* an absent numOfRows or pageNo is written 0: the source reads both with
\* "|| default", which takes 0 and undefined alike
NoParams ==
    [keyword |-> Undefined, contentId |-> Undefined, contentTypeId |-> Undefined,
     areaCode |-> Undefined, numOfRows |-> 0, pageNo |-> 0]

\* the arguments a caller may pass to each operation
ParamsOf(o) ==
    CASE o = "searchKeyword" ->
            {[NoParams EXCEPT !.keyword = k, !.areaCode = a] :
                k \in Strings, a \in {Undefined, "1"}}
      [] o = "getAreaBasedList" ->
            {[NoParams EXCEPT !.areaCode = a, !.contentTypeId = t] :
                a \in {Undefined, "1"}, t \in {Undefined, "12"}}
      [] o \in {"getDetailCommon", "getDetailImage", "getDetailPetTour"} ->
            {[NoParams EXCEPT !.contentId = c] : c \in Strings}
      [] o = "getDetailIntro" ->
            {[NoParams EXCEPT !.contentId = c, !.contentTypeId = t] :
                c \in Strings, t \in TypeIdStrings}
      [] OTHER -> {NoParams}

\* a variant that forgets to trim
IsMissingNoTrim(value) == Falsy(value)

\* !value || value.trim() === ''
IsMissing(value) == Falsy(value) \/ Trim(value) = ""

ValidationError(message) == TourAPIError(message, NoStatus, Undefined, "VALIDATION_ERROR")

\* a variant in which getDetailIntro checks contentTypeId first
ValidateTypeIdFirst(o, params) ==
    CASE o = "searchKeyword" ->
            IF IsMissing(params.keyword)
            THEN ValidationError("Search keyword is required.")
            ELSE NoError
      [] o \in {"getDetailCommon", "getDetailImage", "getDetailPetTour"} ->
            IF IsMissing(params.contentId)
            THEN ValidationError("Content ID is required.")
            ELSE NoError
      [] o = "getDetailIntro" ->
            IF IsMissing(params.contentTypeId)
            THEN ValidationError("Content type ID is required.")
            ELSE IF IsMissing(params.contentId)
            THEN ValidationError("Content ID is required.")
            ELSE NoError
      [] OTHER -> NoError

\* the checks at the head of each operation, in the source's order;
\* NoError when they all pass
Validate(o, params) ==
    CASE o = "searchKeyword" ->
            IF IsMissing(params.keyword)
            THEN ValidationError("Search keyword is required.")
            ELSE NoError
      [] o \in {"getDetailCommon", "getDetailImage", "getDetailPetTour"} ->
            IF IsMissing(params.contentId)
            THEN ValidationError("Content ID is required.")
            ELSE NoError
      [] o = "getDetailIntro" ->
            IF IsMissing(params.contentId)
            THEN ValidationError("Content ID is required.")
            ELSE IF IsMissing(params.contentTypeId)
            THEN ValidationError("Content type ID is required.")
            ELSE NoError
      [] OTHER -> NoError

\* ------------------------------------------------------------ request URL
Endpoint(o) ==
    CASE o = "getAreaCode" -> "/areaCode2"
      [] o = "getAreaBasedList" -> "/areaBasedList2"
      [] o = "searchKeyword" -> "/searchKeyword2"
      [] o = "getDetailCommon" -> "/detailCommon2"
      [] o = "getDetailIntro" -> "/detailIntro2"
      [] o = "getDetailImage" -> "/detailImage2"
      [] o = "getDetailPetTour" -> "/detailPetTour2"

\* one entry of a queryParams object; a number is written as String() writes it
Entry(key, value) == [key |-> key, value |-> value]
NumberEntry(key, n) == Entry(key, ToString(n))

getCommonParams(serviceKey) ==
    <<Entry("serviceKey", serviceKey), Entry("MobileOS", DEFAULT_MOBILE_OS),
      Entry("MobileApp", DEFAULT_MOBILE_APP), Entry("_type", DEFAULT_TYPE)>>

\* params.numOfRows || DEFAULT_NUM_OF_ROWS, params.pageNo || DEFAULT_PAGE_NO
NumOfRows(params) == IF params.numOfRows = 0 THEN DEFAULT_NUM_OF_ROWS ELSE params.numOfRows
PageNo(params) == IF params.pageNo = 0 THEN DEFAULT_PAGE_NO ELSE params.pageNo

\* a variant that always asks for the default page size
PagingDefaultRows(params) ==
    <<NumberEntry("numOfRows", DEFAULT_NUM_OF_ROWS), NumberEntry("pageNo", PageNo(params))>>

Paging(params) ==
    <<NumberEntry("numOfRows", NumOfRows(params)), NumberEntry("pageNo", PageNo(params))>>

\* the queryParams object of each operation, in the order of its keys
QueryParams(o, params, serviceKey) ==
    getCommonParams(serviceKey) \o
    CASE o = "getAreaCode" -> Paging(params)
      [] o = "getAreaBasedList" ->
            <<Entry("areaCode", params.areaCode),
              Entry("contentTypeId", params.contentTypeId)>> \o Paging(params)
      [] o = "searchKeyword" ->
            <<Entry("keyword", Trim(params.keyword)),
              Entry("areaCode", params.areaCode),
              Entry("contentTypeId", params.contentTypeId)>> \o Paging(params)
      [] o \in {"getDetailCommon", "getDetailPetTour"} ->
            <<Entry("contentId", Trim(params.contentId))>>
      [] o = "getDetailIntro" ->
            <<Entry("contentId", Trim(params.contentId)),
              Entry("contentTypeId", Trim(params.contentTypeId))>>
      [] o = "getDetailImage" ->
            <<Entry("contentId", Trim(params.contentId))>> \o Paging(params)

\* a variant that appends every entry, defined or not
buildQueryStringKeepingUndefined(entries) == entries

\* the entries URLSearchParams receives: every entry whose value is defined
RECURSIVE buildQueryString(_)
buildQueryString(entries) ==
    IF entries = <<>> THEN <<>>
    ELSE IF Head(entries).value = Undefined THEN buildQueryString(Tail(entries))
    ELSE <<Head(entries)>> \o buildQueryString(Tail(entries))

RequestUrl(o, params, serviceKey) ==
    [endpoint |-> Endpoint(o), query |-> buildQueryString(QueryParams(o, params, serviceKey))]

\* ------------------------------------------------------------ upstream
\* the number a query entry's text stands for
NumberOf(text) == CHOOSE n \in 0..DEFAULT_NUM_OF_ROWS : ToString(n) = text

\* the page size the upstream reads from a request: its numOfRows entry, or
\* the upstream's own default of 10 when the request has none
RequestedRows(u) ==
    LET rows == {i \in DOMAIN u.query : u.query[i].key = "numOfRows"} IN
    IF rows = {} THEN DEFAULT_NUM_OF_ROWS
    ELSE NumberOf(u.query[CHOOSE i \in rows : TRUE].value)

\* how many records a body carries
ItemCount(b) ==
    IF b.kind # "envelope" THEN 0
    ELSE IF b.body = Undefined \/ b.items # "object" THEN 0
    ELSE IF b.item.tag = "array" THEN Len(b.item.elems)
    ELSE IF b.item.tag = "object" THEN 1
    ELSE 0

\* the message of the error an operation wraps a foreign error in
WrapMessage(o) ==
    CASE o = "getAreaCode" -> "Error while looking up area codes."
      [] o = "getAreaBasedList" -> "Error while listing by area."
      [] o = "searchKeyword" -> "Error while searching by keyword."
      [] o = "getDetailCommon" -> "Error while looking up common info."
      [] o = "getDetailIntro" -> "Error while looking up intro info."
      [] o = "getDetailImage" -> "Error while listing images."
      [] o = "getDetailPetTour" -> "Error while looking up pet info."

NotFoundMessage(o) ==
    CASE o = "getDetailCommon" -> "Detail info not found."
      [] o = "getDetailIntro" -> "Intro info not found."
      [] o = "getDetailPetTour" -> "Pet info not found."

\* throw new TourAPIError('... not found'): no status, no original error, no
\* error type given
NotFoundError(o) == TourAPIError(NotFoundMessage(o), NoStatus, Undefined, DefaultErrorType)

\* a variant that rethrows whatever it caught
ClientCatchRethrowsAll(o, error) == error

\* a variant that wraps whatever it caught
ClientCatchWrapsAll(o, error) ==
    TourAPIError(WrapMessage(o), NoStatus, error.name, DefaultErrorType)

\* the catch block of every operation: a TourAPIError is rethrown as it is,
\* anything else is wrapped (no error type given)
ClientCatch(o, error) ==
    IF error.name = "TourAPIError"
    THEN error
    ELSE TourAPIError(WrapMessage(o), NoStatus, error.name, DefaultErrorType)

Success(items) == [status |-> "ok", items |-> items, error |-> NoError]
Failure(error) == [status |-> "error", items |-> <<>>, error |-> error]
NoResult == [status |-> "none", items |-> <<>>, error |-> NoError]

\* the part of an operation's try block after fetchWithRetry returned:
\* response.json(), parseAPIResponse, and the operation's own use of the items
AfterResponse(o, data) ==
    IF data.kind = "invalid-json"
    THEN Failure(ClientCatch(o, PlainError("SyntaxError", "Unexpected token < in JSON")))
    ELSE LET parsed == parseAPIResponse(data) IN
         IF parsed.threw
         THEN Failure(ClientCatch(o, parsed.error))
         ELSE IF o \in ListOperations
         THEN Success(parsed.value)
         ELSE IF Len(parsed.value) = 0
         THEN Failure(ClientCatch(o, NotFoundError(o)))
         ELSE Success(<<parsed.value[1]>>)

\* ------------------------------------------------------------ transport
\* response.ok
ResponseOk(response) == response.status >= 200 /\ response.status <= 299

HttpErrorType(status) ==
    IF status = 401 \/ status = 403 THEN "API_KEY_INVALID"
    ELSE IF status = 408 THEN "TIMEOUT_ERROR"
    ELSE "HTTP_ERROR"

\* the error thrown inside the try block for a response that is not ok
HttpError(response) ==
    TourAPIError("HTTP " \o ToString(response.status) \o ": " \o response.statusText,
                 response.status, Undefined, HttpErrorType(response.status))

TimeoutError == TourAPIError("Request timed out.", 408, "AbortError", "TIMEOUT_ERROR")

IsNetworkError(error) ==
    \/ error.name = "TypeError"
    \/ Includes(error.message, "fetch")
    \/ Includes(error.message, "network")
    \/ Includes(error.message, "Network")

MaxRetryError(error, n) ==
    TourAPIError("Request failed (" \o ToString(n + 1) \o " attempts): " \o error.message,
                 NoStatus, error.name,
                 IF IsNetworkError(error) THEN "NETWORK_ERROR" ELSE "UNKNOWN_ERROR")

\* RETRY_DELAYS[retryCount] || RETRY_DELAYS[RETRY_DELAYS.length - 1]
RetryDelay(n) ==
    IF n + 1 <= Len(RETRY_DELAYS) THEN RETRY_DELAYS[n + 1]
    ELSE RETRY_DELAYS[Len(RETRY_DELAYS)]

\* a variant that allows one retry more before giving up
CatchOutcomeOneMoreRetry(error, n) ==
    IF error.name = "AbortError"
    THEN [retry |-> FALSE, error |-> TimeoutError, delay |-> 0]
    ELSE IF n > MAX_RETRIES
    THEN [retry |-> FALSE, error |-> MaxRetryError(error, n), delay |-> 0]
    ELSE [retry |-> TRUE, error |-> NoError, delay |-> RetryDelay(n)]

\* what the catch block of fetchWithRetry decides for the error it caught in
\* the attempt with retry count n: throw an error, or wait and retry
CatchOutcome(error, n) ==
    IF error.name = "AbortError"
    THEN [retry |-> FALSE, error |-> TimeoutError, delay |-> 0]
    ELSE IF n >= MAX_RETRIES
    THEN [retry |-> FALSE, error |-> MaxRetryError(error, n), delay |-> 0]
    ELSE [retry |-> TRUE, error |-> NoError, delay |-> RetryDelay(n)]

\* ================================================= statistics aggregator
\* Model of src/lib/api/stats-api.ts: getRegionStats, getTypeStats and
\* getStatsSummary.  A client call made by the aggregator is a promise that
\* is pending until it is fulfilled with the upstream's totalCount or
\* rejected.  A count is a whole number; a percentage is written in
\* hundredths (4167 stands for 41.67).

\* Object.values(CONTENT_TYPE)
CONTENT_TYPE == <<"12", "14", "15", "25", "28", "32", "38", "39">>

TYPE_NAME_MAP(contentTypeId) ==
    CASE contentTypeId = "12" -> "Tourist spot"
      [] contentTypeId = "14" -> "Cultural facility"
      [] contentTypeId = "15" -> "Festival"
      [] contentTypeId = "25" -> "Tour course"
      [] contentTypeId = "28" -> "Leisure sports"
      [] contentTypeId = "32" -> "Accommodation"
      [] contentTypeId = "38" -> "Shopping"
      [] contentTypeId = "39" -> "Restaurant"

\* the i-th area code of the upstream: { code, name }
AreaCode(i) == [code |-> ToString(i), name |-> "Region " \o ToString(i)]

\* the catalogues the upstream may hold while an aggregation runs
Datasets == {"even", "empty", "mixed"}

\* totalCount of areaBasedList2 for the i-th area code
RegionTotalCount(dataset, i) ==
    CASE dataset = "even" -> 150
      [] dataset = "empty" -> 0
      [] dataset = "mixed" -> ((i * 37) % 100) * 10

\* totalCount of areaBasedList2 for the k-th content type
TypeTotalCount(dataset, k) ==
    CASE dataset = "even" -> IF CONTENT_TYPE[k] = "39" THEN 500 ELSE 100
      [] dataset = "empty" -> 0
      [] dataset = "mixed" -> <<300, 100, 100, 0, 700, 200, 300, 500>>[k]

\* a promise: pending, fulfilled with a value, or rejected with an error;
\* a value is a sequence, and null or undefined is the empty sequence
NoPromise == [state |-> "none", value |-> <<>>, error |-> NoError]
Pending == [state |-> "pending", value |-> <<>>, error |-> NoError]
Fulfilled(value) == [state |-> "fulfilled", value |-> value, error |-> NoError]
Rejected(error) == [state |-> "rejected", value |-> <<>>, error |-> error]
Settled(promise) == promise.state \in {"fulfilled", "rejected"}

\* the errors getAreaCode may reject with: whatever its catch block lets out
LookupErrors ==
    {ClientCatch("getAreaCode", e) :
        e \in {getServiceKey(NoCredentials).error, TimeoutError,
               PlainError("SyntaxError", "Unexpected token < in JSON")}}

\* the errors a per-region or per-type getAreaBasedList call may reject with
ListErrors ==
    {ClientCatch("getAreaBasedList", e) :
        e \in {getServiceKey(NoCredentials).error, TimeoutError,
               PlainError("SyntaxError", "Unexpected token < in JSON")}}

\* a client call gets past getCommonParams() under the environment e
Configured(e) == ~getServiceKey(e).threw

\* a client call may reject with error under the environment e: with
\* API_KEY_MISSING when no credential is configured, and with nothing else then
Possible(e, error) == (error.errorType = "API_KEY_MISSING") <=> ~Configured(e)

\* the catch block of one per-region or per-type task: the error is logged
\* and the task's promise is fulfilled with null
TaskCatch(error) == <<>>

\* a variant that wraps whatever it catches
StatsCatchWrapsAll(message, error) ==
    TourAPIError(message, NoStatus, error.name, DefaultErrorType)

\* the catch block of each aggregator function
StatsCatch(message, error) ==
    IF error.name = "TourAPIError"
    THEN error
    ELSE TourAPIError(message, NoStatus, error.name, DefaultErrorType)

\* { areaCode, name, count: response.totalCount }
RegionStats(areaCode, totalCount) ==
    [areaCode |-> areaCode.code, name |-> areaCode.name, count |-> totalCount]

\* { contentTypeId, name, count: response.totalCount, percentage: 0 }
TypeStats(contentTypeId, totalCount) ==
    [contentTypeId |-> contentTypeId, name |-> TYPE_NAME_MAP(contentTypeId),
     count |-> totalCount, percentage |-> 0]

\* a variant that resolves as soon as one call has failed
AllSettledOrOneFailed(promises) ==
    \/ \A i \in DOMAIN promises : Settled(promises[i])
    \/ \E i \in DOMAIN promises : promises[i].state = "fulfilled" /\ promises[i].value = <<>>

\* Promise.allSettled(statsPromises) has resolved
AllSettled(promises) == \A i \in DOMAIN promises : Settled(promises[i])

RECURSIVE FulfilledValuesReversed(_)
\* a variant that lists the values from the last promise to the first
FulfilledValuesReversed(promises) ==
    IF promises = <<>> THEN <<>>
    ELSE FulfilledValuesReversed(Tail(promises))
         \o (IF Head(promises).state = "fulfilled" THEN Head(promises).value ELSE <<>>)

RECURSIVE FulfilledValues(_)
\* results.filter(fulfilled and value !== null).map(result => result.value)
FulfilledValues(promises) ==
    IF promises = <<>> THEN <<>>
    ELSE (IF Head(promises).state = "fulfilled" THEN Head(promises).value ELSE <<>>)
         \o FulfilledValues(Tail(promises))

RECURSIVE SumOfCounts(_)
\* stats.reduce((sum, stat) => sum + stat.count, 0)
SumOfCounts(stats) ==
    IF stats = <<>> THEN 0 ELSE Head(stats).count + SumOfCounts(Tail(stats))

\* a variant that cuts the third decimal off instead of rounding
PercentageTruncated(count, totalCount) == (count * 10000) \div totalCount

\* Number(((count / totalCount) * 100).toFixed(2)), in hundredths: toFixed
\* gives the nearest hundredth, the larger one when two are as near
Percentage(count, totalCount) == (2 * count * 10000 + totalCount) \div (2 * totalCount)

\* the tail of getTypeStats: the percentages over the sum of the counts
WithPercentages(typeStats) ==
    LET totalCount == SumOfCounts(typeStats) IN
    IF totalCount = 0 THEN typeStats
    ELSE [i \in DOMAIN typeStats |->
            [typeStats[i] EXCEPT !.percentage = Percentage(typeStats[i].count, totalCount)]]

RECURSIVE InsertByCountDesc(_, _)
\* stat put after every entry whose count is not smaller
InsertByCountDesc(stat, sorted) ==
    IF sorted = <<>> THEN <<stat>>
    ELSE IF Head(sorted).count >= stat.count
    THEN <<Head(sorted)>> \o InsertByCountDesc(stat, Tail(sorted))
    ELSE <<stat>> \o sorted

RECURSIVE SortByCountDesc(_)
\* [...stats].sort((a, b) => b.count - a.count): descending, stable
SortByCountDesc(stats) ==
    IF stats = <<>> THEN <<>>
    ELSE InsertByCountDesc(stats[Len(stats)], SortByCountDesc(SubSeq(stats, 1, Len(stats) - 1)))

\* a variant that takes the first three without sorting
TopThreeUnsorted(stats) == SubSeq(stats, 1, IF Len(stats) < 3 THEN Len(stats) ELSE 3)

\* .sort(...).slice(0, 3)
TopThree(stats) ==
    LET sorted == SortByCountDesc(stats) IN
    SubSeq(sorted, 1, IF Len(sorted) < 3 THEN Len(sorted) ELSE 3)

\* a variant that counts the regions' places
SummaryTotalCountOfRegions(regionStats, typeStats) == SumOfCounts(regionStats)

\* typeStats.reduce((sum, stat) => sum + stat.count, 0)
SummaryTotalCount(regionStats, typeStats) == SumOfCounts(typeStats)

\* the StatsSummary built from the two lists (lastUpdated, the time of the
\* call, is left out)
StatsSummary(regionStats, typeStats) ==
    [totalCount |-> SummaryTotalCount(regionStats, typeStats),
     topRegions |-> TopThree(regionStats),
     topTypes |-> TopThree(typeStats)]

\* ------------------------------------------------------------ state
VARIABLES
    env,         \* process.env
    pc,          \* where the call is: idle, fetching, aborted, backoff, json, done
    op,          \* the operation called
    params,      \* its arguments
    retryCount,  \* fetchWithRetry's retryCount of the current attempt
    timers,      \* the retry counts of the attempts whose timeout timer is pending
    fetchCalls,  \* how many times fetch was called for this call
    delays,      \* the backoff delays waited so far, in order
    outcomes,    \* how each attempt ended: ok, http, network, error, timeout
    response,    \* the Response the current attempt received
    data,        \* the body read from the response
    result,      \* what the operation gave its caller
    parsed,      \* what parseAPIResponse gave for data
    url,         \* the request URL of the call: endpoint and query entries
    thrown,      \* the error fetchWithRetry threw to the operation
    upstream,    \* the catalogue the upstream holds during an aggregation
    statsCall,   \* the aggregator function called: none or its name
    areaCodes,   \* getRegionStats: the promise of getAreaCode
    regionTasks, \* getRegionStats: statsPromises, one promise per area code
    typeTasks,   \* getTypeStats: statsPromises, one promise per content type
    regionStats, \* the promise of getRegionStats
    typeStats,   \* the promise of getTypeStats
    summary,     \* the promise of getStatsSummary
    calls,       \* concurrent transport calls, each with its own locals
    shown,       \* the errors shown to the user, each with its user message
    auth,        \* BookmarkButton: useAuth(), { isLoaded, userId }
    isBookmarked, \* BookmarkButton: useState(false)
    isLoading,   \* BookmarkButton: useState(true)
    isToggling,  \* BookmarkButton: useState(false)
    loads,       \* BookmarkButton: how many getBookmark calls are pending
    requests,    \* BookmarkButton: the addBookmark/removeBookmark calls pending
    stored,      \* whether the bookmarks table holds the user's bookmark
    route,       \* the page the router shows
    toast        \* the last toast shown

vars == <<env, pc, op, params, retryCount, timers, fetchCalls, delays, outcomes,
          response, data, result, parsed, url, thrown, upstream, statsCall,
          areaCodes, regionTasks, typeTasks, regionStats, typeStats, summary, calls,
          shown, auth, isBookmarked, isLoading, isToggling, loads, requests, stored,
          route, toast>>

\* the variables of a client call
callVars == <<pc, op, params, retryCount, timers, fetchCalls, delays, outcomes,
              response, data, result, url, thrown>>

\* the variables of the user interface
viewVars == <<shown, auth, isBookmarked, isLoading, isToggling, loads, requests, stored,
              route, toast>>

\* nothing is shown yet and the button is not mounted
ViewIdle ==
    /\ shown = <<>>
    /\ auth = [isLoaded |-> FALSE, userId |-> Undefined]
    /\ isBookmarked = FALSE
    /\ isLoading = TRUE
    /\ isToggling = FALSE
    /\ loads = <<>>
    /\ requests = <<>>
    /\ stored = FALSE
    /\ route = "/"
    /\ toast = ""

\* the variables of the client
clientVars == <<env, callVars, parsed>>

\* the variables of the aggregator
statsVars == <<upstream, statsCall, areaCodes, regionTasks, typeTasks, regionStats,
               typeStats, summary>>

\* no aggregator function has been called
StatsIdle ==
    /\ statsCall = "none"
    /\ areaCodes = NoPromise
    /\ regionTasks = <<>>
    /\ typeTasks = <<>>
    /\ regionStats = NoPromise
    /\ typeStats = NoPromise
    /\ summary = NoPromise

NotParsed == [threw |-> FALSE, error |-> NoError, value |-> <<0>>]

NoResponse == [status |-> 0, statusText |-> ""]

NoUrl == [endpoint |-> "", query |-> <<>>]

\* no client call is under way
ClientIdle ==
    /\ pc = "idle"
    /\ op = "none"
    /\ params = NoParams
    /\ retryCount = 0
    /\ timers = {}
    /\ fetchCalls = 0
    /\ delays = <<>>
    /\ outcomes = <<>>
    /\ response = NoResponse
    /\ data = NoData
    /\ result = NoResult
    /\ parsed = NotParsed
    /\ url = NoUrl
    /\ thrown = NoError

\* the module is loaded before the environment holds a credential; SetEnv
\* configures it
Init ==
    /\ env = NoCredentials
    /\ pc = "idle"
    /\ op = "none"
    /\ params = NoParams
    /\ retryCount = 0
    /\ timers = {}
    /\ fetchCalls = 0
    /\ delays = <<>>
    /\ outcomes = <<>>
    /\ response = NoResponse
    /\ data = NoData
    /\ result = NoResult
    /\ parsed = NotParsed
    /\ url = NoUrl
    /\ thrown = NoError
    /\ upstream = "even"
    /\ StatsIdle
    /\ calls = <<>>
    /\ ViewIdle

\* the head of fetchWithRetry(url, options, n): a controller, its timeout
\* timer, and the call of fetch
StartAttempt(n) ==
    /\ retryCount' = n
    /\ timers' = timers \cup {n}
    /\ fetchCalls' = fetchCalls + 1
    /\ response' = NoResponse
    /\ pc' = "fetching"

\* a variant that leaves the timer pending
clearTimeoutNever(pending, timeoutId) == pending

\* clearTimeout(timeoutId): the timer is pending no more
clearTimeout(pending, timeoutId) == pending \ {timeoutId}

\* the call ends and the caller gets r
Finish(r) ==
    /\ result' = r
    /\ pc' = "done"

\* the catch block of fetchWithRetry for the error caught
Catch(error) ==
    LET outcome == CatchOutcome(error, retryCount) IN
    /\ timers' = clearTimeout(timers, retryCount)
    /\ IF outcome.retry
       THEN /\ delays' = Append(delays, outcome.delay)
            /\ pc' = "backoff"
            /\ UNCHANGED <<result, thrown>>
       ELSE /\ thrown' = outcome.error
            /\ Finish(Failure(ClientCatch(op, thrown')))
            /\ UNCHANGED delays
    /\ UNCHANGED <<retryCount, fetchCalls>>

\* a caller calls operation o with arguments p: validation, the credential
\* lookup of getCommonParams, then the first attempt
Call(o, p) ==
    /\ pc = "idle"
    /\ op' = o
    /\ params' = p
    /\ IF Validate(o, p) # NoError
       THEN /\ Finish(Failure(Validate(o, p)))
            /\ UNCHANGED <<retryCount, timers, fetchCalls, response, url>>
       ELSE IF getServiceKey(env).threw
       THEN /\ Finish(Failure(getServiceKey(env).error))
            /\ UNCHANGED <<retryCount, timers, fetchCalls, response, url>>
       ELSE /\ url' = RequestUrl(o, p, getServiceKey(env).value[1])
            /\ StartAttempt(0)
            /\ UNCHANGED result
    /\ UNCHANGED <<env, delays, outcomes, data, parsed, thrown>>
    /\ UNCHANGED <<statsVars, calls, viewVars>>

\* fetch resolves with a Response before the timeout
FetchResolved(r) ==
    /\ pc = "fetching"
    /\ response' = r
    /\ IF ResponseOk(r)
       THEN /\ timers' = clearTimeout(timers, retryCount)
            /\ outcomes' = Append(outcomes, "ok")
            /\ pc' = "json"
            /\ UNCHANGED <<retryCount, fetchCalls, delays, result, thrown>>
       ELSE /\ outcomes' = Append(outcomes, "http")
            /\ Catch(HttpError(r))
    /\ UNCHANGED <<env, op, params, data, parsed, url>>
    /\ UNCHANGED <<statsVars, calls, viewVars>>

\* fetch rejects before the timeout
FetchRejected(e) ==
    /\ pc = "fetching"
    /\ outcomes' = Append(outcomes, IF e.name = "TypeError" THEN "network" ELSE "error")
    /\ Catch(e)
    /\ UNCHANGED <<env, op, params, response, data, parsed, url>>
    /\ UNCHANGED <<statsVars, calls, viewVars>>

\* the timeout timer of the current attempt fires: controller.abort()
TimeoutFires ==
    /\ pc = "fetching"
    /\ retryCount \in timers
    /\ timers' = timers \ {retryCount}
    /\ pc' = "aborted"
    /\ UNCHANGED <<env, op, params, retryCount, fetchCalls, delays, outcomes,
                   response, data, result, parsed, url, thrown>>
    /\ UNCHANGED <<statsVars, calls, viewVars>>

\* the aborted fetch rejects with an AbortError
FetchAborted ==
    /\ pc = "aborted"
    /\ outcomes' = Append(outcomes, "timeout")
    /\ Catch(AbortError)
    /\ UNCHANGED <<env, op, params, response, data, parsed, url>>
    /\ UNCHANGED <<statsVars, calls, viewVars>>

\* the backoff delay has passed: fetchWithRetry(url, options, retryCount + 1)
BackoffElapsed ==
    /\ pc = "backoff"
    /\ StartAttempt(retryCount + 1)
    /\ UNCHANGED <<env, op, params, delays, outcomes, data, result, parsed, url,
                   thrown>>
    /\ UNCHANGED <<statsVars, calls, viewVars>>

\* the operation reads the body of the response fetchWithRetry returned
ReadBody(b) ==
    /\ pc = "json"
    /\ ItemCount(b) <= RequestedRows(url)
    /\ data' = b
    /\ parsed' = IF b.kind = "invalid-json" THEN NotParsed ELSE parseAPIResponse(b)
    /\ Finish(AfterResponse(op, b))
    /\ UNCHANGED <<env, op, params, retryCount, timers, fetchCalls, delays,
                   outcomes, response, url, thrown>>
    /\ UNCHANGED <<statsVars, calls, viewVars>>

\* the caller has its result; the next call starts afresh
Return ==
    /\ pc = "done"
    /\ pc' = "idle"
    /\ op' = "none"
    /\ params' = NoParams
    /\ retryCount' = 0
    /\ timers' = {}
    /\ fetchCalls' = 0
    /\ delays' = <<>>
    /\ outcomes' = <<>>
    /\ response' = NoResponse
    /\ data' = NoData
    /\ result' = NoResult
    /\ parsed' = NotParsed
    /\ url' = NoUrl
    /\ thrown' = NoError
    /\ UNCHANGED env
    /\ UNCHANGED <<statsVars, calls, viewVars>>

\* the environment is reconfigured between calls
SetEnv(e) ==
    /\ pc = "idle"
    /\ env' = e
    /\ UNCHANGED <<callVars, parsed>>
    /\ UNCHANGED <<statsVars, calls, viewVars>>

Next ==
    \/ \E o \in Operations : \E p \in ParamsOf(o) : Call(o, p)
    \/ \E r \in Responses : FetchResolved(r)
    \/ \E e \in Rejections : FetchRejected(e)
    \/ TimeoutFires
    \/ FetchAborted
    \/ BackoffElapsed
    \/ \E b \in Bodies : ReadBody(b)
    \/ Return
    \/ \E e \in Envs : SetEnv(e)

Spec == Init /\ [][Next]_vars

\* ------------------------------------------ getAreaBasedList with arguments
\* the arguments a caller may pass to getAreaBasedList: each optional filter
\* absent or given, a page size absent (0) or up to MaxItems, a page number
\* absent (0) or given
AreaBasedListParams ==
    {[NoParams EXCEPT !.areaCode = a, !.contentTypeId = t, !.numOfRows = n, !.pageNo = q] :
        a \in {Undefined, "1"}, t \in {Undefined, "12"}, n \in 0..MaxItems, q \in {0, 2}}

ListNext ==
    \/ \E p \in AreaBasedListParams : Call("getAreaBasedList", p)
    \/ \E r \in Responses : FetchResolved(r)
    \/ \E e \in Rejections : FetchRejected(e)
    \/ TimeoutFires
    \/ FetchAborted
    \/ BackoffElapsed
    \/ \E b \in Bodies : ReadBody(b)
    \/ Return
    \/ \E e \in Envs : SetEnv(e)

SpecList == Init /\ [][ListNext]_vars

\* ------------------------------------------ one call under fair scheduling
\* getAreaCode calls, with the environment reconfigured between them
FairNext ==
    \/ Call("getAreaCode", NoParams)
    \/ \E r \in Responses : FetchResolved(r)
    \/ \E e \in Rejections : FetchRejected(e)
    \/ TimeoutFires
    \/ FetchAborted
    \/ BackoffElapsed
    \/ \E b \in Bodies : ReadBody(b)
    \/ Return
    \/ \E e \in Envs : SetEnv(e)

\* what the runtime does by itself once fetchWithRetry is running: the
\* pending fetch settles or its timeout timer fires, an aborted fetch
\* rejects, the backoff timer elapses
Settle ==
    \/ \E r \in Responses : FetchResolved(r)
    \/ \E e \in Rejections : FetchRejected(e)
    \/ TimeoutFires
    \/ FetchAborted
    \/ BackoffElapsed

SpecFair == Init /\ [][FairNext]_vars /\ WF_vars(Settle)

\* ------------------------------------------ the parser on its own
\* parseAPIResponse applied to any value that has a header
ParserInit ==
    /\ env = NoCredentials
    /\ pc = "parser"
    /\ op = "none"
    /\ params = NoParams
    /\ retryCount = 0
    /\ timers = {}
    /\ fetchCalls = 0
    /\ delays = <<>>
    /\ outcomes = <<>>
    /\ response = NoResponse
    /\ data \in Envelopes \cup {MalformedEnvelope}
    /\ result = NoResult
    /\ parsed = NotParsed
    /\ url = NoUrl
    /\ thrown = NoError
    /\ upstream = "even"
    /\ StatsIdle
    /\ calls = <<>>
    /\ ViewIdle

Parse ==
    /\ pc = "parser"
    /\ parsed' = parseAPIResponse(data)
    /\ pc' = "parsed"
    /\ UNCHANGED <<env, op, params, retryCount, timers, fetchCalls, delays,
                   outcomes, response, data, result, url, thrown>>
    /\ UNCHANGED <<statsVars, calls, viewVars>>

SpecParser == ParserInit /\ [][Parse]_vars

\* ------------------------------------------ the aggregator's actions
StatsInit ==
    /\ env \in {NoCredentials, [NoCredentials EXCEPT !.TOUR_API_KEY = "KEY_B"]}
    /\ ClientIdle
    /\ upstream \in Datasets
    /\ StatsIdle
    /\ calls = <<>>
    /\ ViewIdle

\* a variant that fails the aggregate when one of the calls failed
RegionStatsResultAllOrNothing(promises) ==
    IF \E i \in DOMAIN promises : promises[i].value = <<>>
    THEN Rejected(TourAPIError("Error while collecting region statistics.", NoStatus,
                               Undefined, DefaultErrorType))
    ELSE Fulfilled(FulfilledValues(promises))

\* what getRegionStats returns once every promise has settled
RegionStatsResult(promises) == Fulfilled(FulfilledValues(promises))

\* a variant that fails the aggregate when one of the calls failed
TypeStatsResultAllOrNothing(promises) ==
    IF \E k \in DOMAIN promises : promises[k].value = <<>>
    THEN Rejected(TourAPIError("Error while collecting type statistics.", NoStatus,
                               Undefined, DefaultErrorType))
    ELSE Fulfilled(WithPercentages(FulfilledValues(promises)))

\* a variant that throws when no call succeeded
TypeStatsResultFailsWhenEmpty(promises) ==
    IF FulfilledValues(promises) = <<>>
    THEN Rejected(TourAPIError("Error while collecting type statistics.", NoStatus,
                               Undefined, DefaultErrorType))
    ELSE Fulfilled(WithPercentages(FulfilledValues(promises)))

\* what getTypeStats returns once every promise has settled
TypeStatsResult(promises) == Fulfilled(WithPercentages(FulfilledValues(promises)))

\* a caller calls getRegionStats(): getAreaCode({ numOfRows: 100, pageNo: 1 })
GetRegionStats ==
    /\ statsCall = "none"
    /\ statsCall' = "getRegionStats"
    /\ areaCodes' = Pending
    /\ regionStats' = Pending
    /\ UNCHANGED <<upstream, regionTasks, typeTasks, typeStats, summary>>
    /\ UNCHANGED <<clientVars, calls, viewVars>>

\* getAreaCode answers with n area codes: none gives [] at once, otherwise one
\* getAreaBasedList({ areaCode, numOfRows: 1, pageNo: 1 }) starts per code
AreaCodeResolved(n) ==
    /\ statsCall = "getRegionStats"
    /\ areaCodes = Pending
    /\ Configured(env)
    /\ areaCodes' = Fulfilled([i \in 1..n |-> AreaCode(i)])
    /\ IF n = 0
       THEN /\ regionStats' = Fulfilled(<<>>)
            /\ UNCHANGED regionTasks
       ELSE /\ regionTasks' = [i \in 1..n |-> Pending]
            /\ UNCHANGED regionStats
    /\ UNCHANGED <<upstream, statsCall, typeTasks, typeStats, summary>>
    /\ UNCHANGED <<clientVars, calls, viewVars>>

\* getAreaCode fails: the catch block of getRegionStats
AreaCodeRejected(error) ==
    /\ statsCall = "getRegionStats"
    /\ areaCodes = Pending
    /\ Possible(env, error)
    /\ areaCodes' = Rejected(error)
    /\ regionStats' = Rejected(StatsCatch("Error while collecting region statistics.", error))
    /\ UNCHANGED <<upstream, statsCall, regionTasks, typeTasks, typeStats, summary>>
    /\ UNCHANGED <<clientVars, calls, viewVars>>

\* one promise of getRegionStats settles with value (a statistic, or null
\* from its catch block); the last one to settle resolves allSettled
RegionTaskSettles(i, value) ==
    /\ regionTasks[i] = Pending
    /\ regionTasks' = [regionTasks EXCEPT ![i] = Fulfilled(value)]
    /\ regionStats' = IF AllSettled(regionTasks') THEN RegionStatsResult(regionTasks')
                      ELSE regionStats
    /\ UNCHANGED <<upstream, statsCall, areaCodes, typeTasks, typeStats, summary>>
    /\ UNCHANGED <<clientVars, calls, viewVars>>

\* the getAreaBasedList call for the i-th area code succeeds
RegionListResolved(i) ==
    /\ i \in DOMAIN regionTasks
    /\ Configured(env)
    /\ RegionTaskSettles(i, <<RegionStats(areaCodes.value[i], RegionTotalCount(upstream, i))>>)

\* the getAreaBasedList call for the i-th area code fails: logged, null
RegionListRejected(i) ==
    /\ i \in DOMAIN regionTasks
    /\ \E error \in ListErrors :
            /\ Possible(env, error)
            /\ RegionTaskSettles(i, TaskCatch(error))

\* a caller calls getTypeStats(): one getAreaBasedList({ contentTypeId,
\* numOfRows: 1, pageNo: 1 }) starts per content type
GetTypeStats ==
    /\ statsCall = "none"
    /\ statsCall' = "getTypeStats"
    /\ typeTasks' = [k \in DOMAIN CONTENT_TYPE |-> Pending]
    /\ typeStats' = Pending
    /\ UNCHANGED <<upstream, areaCodes, regionTasks, regionStats, summary>>
    /\ UNCHANGED <<clientVars, calls, viewVars>>

\* one promise of getTypeStats settles; the last one to settle resolves
\* allSettled, and the percentages are computed
TypeTaskSettles(k, value) ==
    /\ typeTasks[k] = Pending
    /\ typeTasks' = [typeTasks EXCEPT ![k] = Fulfilled(value)]
    /\ typeStats' = IF AllSettled(typeTasks') THEN TypeStatsResult(typeTasks')
                    ELSE typeStats
    /\ UNCHANGED <<upstream, statsCall, areaCodes, regionTasks, regionStats, summary>>
    /\ UNCHANGED <<clientVars, calls, viewVars>>

\* the getAreaBasedList call for the k-th content type succeeds
TypeListResolved(k) ==
    /\ k \in DOMAIN typeTasks
    /\ Configured(env)
    /\ TypeTaskSettles(k, <<TypeStats(CONTENT_TYPE[k], TypeTotalCount(upstream, k))>>)

\* the getAreaBasedList call for the k-th content type fails: logged, null
TypeListRejected(k) ==
    /\ k \in DOMAIN typeTasks
    /\ \E error \in ListErrors :
            /\ Possible(env, error)
            /\ TypeTaskSettles(k, TaskCatch(error))

\* what getRegionStats gives under the catalogue when the lookup answers
\* with the area codes 1..Len(ok) and the call for code i succeeds iff ok[i]
RegionStatsOutcome(dataset, ok) ==
    RegionStatsResult([i \in DOMAIN ok |->
        IF ok[i] THEN Fulfilled(<<RegionStats(AreaCode(i), RegionTotalCount(dataset, i))>>)
        ELSE Fulfilled(<<>>)])

\* what getTypeStats gives under the catalogue when the call for the k-th
\* content type succeeds iff ok[k]
TypeStatsOutcome(dataset, ok) ==
    TypeStatsResult([k \in DOMAIN CONTENT_TYPE |->
        IF ok[k] THEN Fulfilled(<<TypeStats(CONTENT_TYPE[k], TypeTotalCount(dataset, k))>>)
        ELSE Fulfilled(<<>>)])

\* a caller calls getStatsSummary(): Promise.all([getRegionStats(),
\* getTypeStats()])
GetStatsSummary ==
    /\ statsCall = "none"
    /\ statsCall' = "getStatsSummary"
    /\ regionStats' = Pending
    /\ typeStats' = Pending
    /\ summary' = Pending
    /\ UNCHANGED <<upstream, areaCodes, regionTasks, typeTasks>>
    /\ UNCHANGED <<clientVars, calls, viewVars>>

\* what the promise of getStatsSummary is once its two promises are as given:
\* Promise.all rejects with the first rejection and resolves when both are
\* fulfilled
SummaryAfter(current, regions, types) ==
    IF current # Pending THEN current
    ELSE IF regions.state = "rejected"
    THEN Rejected(StatsCatch("Error while collecting the statistics summary.", regions.error))
    ELSE IF types.state = "rejected"
    THEN Rejected(StatsCatch("Error while collecting the statistics summary.", types.error))
    ELSE IF regions.state = "fulfilled" /\ types.state = "fulfilled"
    THEN Fulfilled(<<StatsSummary(regions.value, types.value)>>)
    ELSE current

\* within getStatsSummary, the lookup of getRegionStats settles as lookup and
\* the promise of getRegionStats as r
SummaryRegionStatsSettles(lookup, r) ==
    /\ areaCodes' = lookup
    /\ regionStats' = r
    /\ summary' = SummaryAfter(summary, r, typeStats)
    /\ UNCHANGED <<upstream, statsCall, regionTasks, typeTasks, typeStats>>
    /\ UNCHANGED <<clientVars, calls, viewVars>>

\* within getStatsSummary, getRegionStats returns: its lookup answered with
\* Len(ok) area codes and the call for code i succeeded iff ok[i]
SummaryRegionStatsFulfilled(ok) ==
    /\ statsCall = "getStatsSummary"
    /\ regionStats = Pending
    /\ Configured(env)
    /\ SummaryRegionStatsSettles(Fulfilled([i \in DOMAIN ok |-> AreaCode(i)]),
                                 RegionStatsOutcome(upstream, ok))

\* within getStatsSummary, getRegionStats throws: its lookup failed
SummaryRegionStatsRejected(error) ==
    /\ statsCall = "getStatsSummary"
    /\ regionStats = Pending
    /\ Possible(env, error)
    /\ SummaryRegionStatsSettles(
            Rejected(error),
            Rejected(StatsCatch("Error while collecting region statistics.", error)))

\* within getStatsSummary, getTypeStats returns: the call for the k-th
\* content type succeeded iff ok[k]
SummaryTypeStatsFulfilled(ok) ==
    /\ statsCall = "getStatsSummary"
    /\ typeStats = Pending
    /\ Configured(env) \/ \A k \in DOMAIN ok : ~ok[k]
    /\ typeStats' = TypeStatsOutcome(upstream, ok)
    /\ summary' = SummaryAfter(summary, regionStats, typeStats')
    /\ UNCHANGED <<upstream, statsCall, areaCodes, regionTasks, typeTasks, regionStats>>
    /\ UNCHANGED <<clientVars, calls, viewVars>>

\* the promise of the function called
StatsPromise ==
    CASE statsCall = "getRegionStats" -> regionStats
      [] statsCall = "getTypeStats" -> typeStats
      [] statsCall = "getStatsSummary" -> summary
      [] OTHER -> NoPromise

\* the caller has its answer; the next call starts afresh
StatsReturn ==
    /\ Settled(StatsPromise)
    /\ statsCall' = "none"
    /\ areaCodes' = NoPromise
    /\ regionTasks' = <<>>
    /\ typeTasks' = <<>>
    /\ regionStats' = NoPromise
    /\ typeStats' = NoPromise
    /\ summary' = NoPromise
    /\ UNCHANGED upstream
    /\ UNCHANGED <<clientVars, calls, viewVars>>

StatsNext ==
    \/ GetRegionStats
    \/ \E n \in 0..MaxRegions : AreaCodeResolved(n)
    \/ \E error \in LookupErrors : AreaCodeRejected(error)
    \/ \E i \in 1..MaxRegions : RegionListResolved(i)
    \/ \E i \in 1..MaxRegions : RegionListRejected(i)
    \/ GetTypeStats
    \/ \E k \in DOMAIN CONTENT_TYPE : TypeListResolved(k)
    \/ \E k \in DOMAIN CONTENT_TYPE : TypeListRejected(k)
    \/ GetStatsSummary
    \/ \E n \in 0..MaxRegions : \E ok \in [1..n -> BOOLEAN] : SummaryRegionStatsFulfilled(ok)
    \/ \E error \in LookupErrors : SummaryRegionStatsRejected(error)
    \/ \E ok \in [DOMAIN CONTENT_TYPE -> BOOLEAN] : SummaryTypeStatsFulfilled(ok)
    \/ StatsReturn

SpecStats == StatsInit /\ [][StatsNext]_vars

\* ------------------------------------------ concurrent transport calls
\* Several calls of fetchWithRetry under way at once.  Everything a call
\* writes is a parameter or a local of its own invocation (retryCount,
\* controller, timeoutId), so each call is a record of its own.
CallIds == 1..MaxCalls

IdleCall ==
    [pc |-> "idle", retryCount |-> 0, timers |-> {}, fetchCalls |-> 0, delays |-> <<>>,
     outcomes |-> <<>>, result |-> NoResult]

\* what the attempts of the concurrent calls may be answered with
ConcurrentResponses ==
    {[status |-> 200, statusText |-> "OK"],
     [status |-> 500, statusText |-> "Internal Server Error"]}

ConcurrentInit ==
    /\ env = NoCredentials
    /\ ClientIdle
    /\ upstream = "even"
    /\ StatsIdle
    /\ calls = [c \in CallIds |-> IdleCall]
    /\ ViewIdle

\* the call's record after the head of fetchWithRetry(url, options, n)
AttemptStarted(call, n) ==
    [call EXCEPT !.pc = "fetching", !.retryCount = n, !.timers = call.timers \cup {n},
                 !.fetchCalls = call.fetchCalls + 1]

\* the call's record after its attempt ended as outcome and the catch block
\* of fetchWithRetry caught error
AttemptFailed(call, outcome, error) ==
    LET decision == CatchOutcome(error, call.retryCount)
        logged == [call EXCEPT !.outcomes = Append(call.outcomes, outcome),
                               !.timers = call.timers \ {call.retryCount}]
    IN  IF decision.retry
        THEN [logged EXCEPT !.pc = "backoff", !.delays = Append(call.delays, decision.delay)]
        ELSE [logged EXCEPT !.pc = "done", !.result = Failure(decision.error)]

\* a variant that keeps one retry count for all the calls
NextRetryCountShared(cs, c) ==
    1 + CHOOSE n \in {cs[d].retryCount : d \in DOMAIN cs} :
            \A d \in DOMAIN cs : cs[d].retryCount <= n

\* retryCount + 1 of the call's own invocation
NextRetryCount(cs, c) == cs[c].retryCount + 1

\* the other variables stay as they are
OnlyCalls == UNCHANGED <<clientVars, statsVars, viewVars>>

ConcurrentCall(c) ==
    /\ calls[c].pc = "idle"
    /\ calls' = [calls EXCEPT ![c] = AttemptStarted(calls[c], 0)]
    /\ OnlyCalls

ConcurrentFetchResolved(c, r) ==
    /\ calls[c].pc = "fetching"
    /\ calls' = [calls EXCEPT ![c] =
                    IF ResponseOk(r)
                    THEN [calls[c] EXCEPT !.pc = "done",
                                          !.timers = calls[c].timers \ {calls[c].retryCount},
                                          !.outcomes = Append(calls[c].outcomes, "ok"),
                                          !.result = Success(<<>>)]
                    ELSE AttemptFailed(calls[c], "http", HttpError(r))]
    /\ OnlyCalls

ConcurrentFetchRejected(c, e) ==
    /\ calls[c].pc = "fetching"
    /\ calls' = [calls EXCEPT ![c] = AttemptFailed(calls[c], "network", e)]
    /\ OnlyCalls

ConcurrentTimeoutFires(c) ==
    /\ calls[c].pc = "fetching"
    /\ calls[c].retryCount \in calls[c].timers
    /\ calls' = [calls EXCEPT ![c] =
                    [calls[c] EXCEPT !.pc = "aborted",
                                     !.timers = calls[c].timers \ {calls[c].retryCount}]]
    /\ OnlyCalls

ConcurrentFetchAborted(c) ==
    /\ calls[c].pc = "aborted"
    /\ calls' = [calls EXCEPT ![c] = AttemptFailed(calls[c], "timeout", AbortError)]
    /\ OnlyCalls

ConcurrentBackoffElapsed(c) ==
    /\ calls[c].pc = "backoff"
    /\ calls' = [calls EXCEPT ![c] = AttemptStarted(calls[c], NextRetryCount(calls, c))]
    /\ OnlyCalls

ConcurrentNext ==
    \E c \in CallIds :
        \/ ConcurrentCall(c)
        \/ \E r \in ConcurrentResponses : ConcurrentFetchResolved(c, r)
        \/ ConcurrentFetchRejected(c, PlainError("TypeError", "fetch failed"))
        \/ ConcurrentTimeoutFires(c)
        \/ ConcurrentFetchAborted(c)
        \/ ConcurrentBackoffElapsed(c)

SpecConcurrent == ConcurrentInit /\ [][ConcurrentNext]_vars

\* ------------------------------------------ the user message of an error
\* TourAPIError.getUserMessage()
getUserMessage(error) ==
    CASE error.errorType \in {"API_KEY_MISSING", "API_KEY_INVALID"} ->
            "There is a problem with the service settings. Please try again later."
      [] error.errorType = "NETWORK_ERROR" ->
            "Check your internet connection and try again later."
      [] error.errorType = "TIMEOUT_ERROR" ->
            "The server is slow to respond. Please try again later."
      [] error.errorType = "HTTP_ERROR" ->
            IF error.statusCode = 404 THEN "The requested information was not found."
            ELSE IF error.statusCode = 429 THEN "Too many requests. Please try again later."
            ELSE IF error.statusCode # NoStatus /\ error.statusCode >= 500
            THEN "The server has a problem. Please try again later."
            ELSE "An error occurred while processing the request."
      [] error.errorType = "API_ERROR" ->
            "An error occurred while loading tourist information."
      [] error.errorType = "PARSE_ERROR" ->
            "An error occurred while processing the data."
      [] error.errorType = "VALIDATION_ERROR" -> error.message
      [] OTHER -> "An error occurred. Please try again later."

\* the errors whose message is asked for: every kind, with and without a
\* status code, with either of two original messages
UserErrors ==
    {TourAPIError(message, statusCode, Undefined, errorType) :
        message \in {"Search keyword is required.", "HTTP 500: Internal Server Error"},
        statusCode \in {NoStatus, 400, 404, 429, 500},
        errorType \in TourAPIErrorType}

\* two errors are about to be shown
MessagesInit ==
    /\ env = NoCredentials
    /\ ClientIdle
    /\ upstream = "even"
    /\ StatsIdle
    /\ calls = <<>>
    /\ shown \in {<<[error |-> a, message |-> ""], [error |-> b, message |-> ""]>> :
                    a \in UserErrors, b \in UserErrors}
    /\ auth = [isLoaded |-> FALSE, userId |-> Undefined]
    /\ isBookmarked = FALSE
    /\ isLoading = TRUE
    /\ isToggling = FALSE
    /\ loads = <<>>
    /\ requests = <<>>
    /\ stored = FALSE
    /\ route = "/"
    /\ toast = ""

\* the error page asks each error for its user message
ShowMessages ==
    /\ \E i \in DOMAIN shown : shown[i].message = ""
    /\ shown' = [i \in DOMAIN shown |->
                    [shown[i] EXCEPT !.message = getUserMessage(shown[i].error)]]
    /\ UNCHANGED <<clientVars, statsVars, calls>>
    /\ UNCHANGED <<auth, isBookmarked, isLoading, isToggling, loads, requests, stored,
                   route, toast>>

SpecMessages == MessagesInit /\ [][ShowMessages]_vars

\* ------------------------------------------ the bookmark button
\* Model of BookmarkButton in src/components/bookmarks/bookmark-button.tsx.
\* auth is what useAuth() returns; isBookmarked, isLoading and isToggling are
\* the component's state; loads are the getBookmark calls under way, each
\* not yet read or read with the value it will resolve to; requests are the
\* addBookmark and removeBookmark calls under way; stored tells whether the
\* bookmark row exists in the database; toast is the last toast shown.
SignedOut == [isLoaded |-> TRUE, userId |-> Undefined]
SignedIn == [isLoaded |-> TRUE, userId |-> "user_1"]
AuthStates == {[isLoaded |-> FALSE, userId |-> Undefined], SignedOut, SignedIn}

ToastAdded == "Bookmark added."
ToastRemoved == "Bookmark removed."
\* error.message, or the default text when the error is not an Error
ToastErrors == {"duplicate key value", "Could not complete the bookmark action."}

\* the component's state after its useState initialisers, before its effect
BookmarkInit ==
    /\ env = NoCredentials
    /\ ClientIdle
    /\ upstream = "even"
    /\ StatsIdle
    /\ calls = <<>>
    /\ shown = <<>>
    /\ auth \in AuthStates
    /\ isBookmarked = FALSE
    /\ isLoading = TRUE
    /\ isToggling = FALSE
    /\ loads = <<>>
    /\ requests = <<>>
    /\ stored \in BOOLEAN
    /\ route = "/"
    /\ toast = ""

OnlyView == UNCHANGED <<clientVars, statsVars, calls, shown>>

\* the effect has not run yet
BeforeEffect == isLoading /\ loads = <<>>

\* a sequence without its i-th element
Without(seq, i) == SubSeq(seq, 1, i - 1) \o SubSeq(seq, i + 1, Len(seq))

\* loadBookmarkStatus() up to its first await, under the auth state a
loadBookmarkStatus(a) ==
    IF ~a.isLoaded \/ a.userId = Undefined
    THEN /\ isLoading' = FALSE
         /\ isBookmarked' = FALSE
         /\ UNCHANGED loads
    ELSE /\ loads' = Append(loads, [read |-> FALSE, value |-> FALSE])
         /\ UNCHANGED <<isLoading, isBookmarked>>

\* the first render is committed and the effect runs
Mount ==
    /\ route = "/"
    /\ BeforeEffect
    /\ loadBookmarkStatus(auth)
    /\ UNCHANGED <<auth, isToggling, requests, stored, route, toast>>
    /\ OnlyView

\* Clerk finishes loading, with or without a user, or the user signs in or
\* out: isLoaded and userId are dependencies of the effect, which runs again
\* (it has no cleanup, and isLoading is not set again)
AuthChanged(a) ==
    /\ route = "/"
    /\ ~BeforeEffect
    /\ a.isLoaded
    /\ a # auth
    /\ Len(loads) < MaxLoads
    /\ auth' = a
    /\ loadBookmarkStatus(a)
    /\ UNCHANGED <<isToggling, requests, stored, route, toast>>
    /\ OnlyView

\* the database answers the query of a getBookmark call
BookmarkRead(i) ==
    /\ i \in DOMAIN loads
    /\ ~loads[i].read
    /\ loads' = [loads EXCEPT ![i] = [read |-> TRUE, value |-> stored]]
    /\ UNCHANGED <<auth, isBookmarked, isLoading, isToggling, requests, stored, route,
                   toast>>
    /\ OnlyView

\* getBookmark resolves: setIsBookmarked(!!bookmark), finally setIsLoading(false)
LoadResolved(i) ==
    /\ i \in DOMAIN loads
    /\ loads[i].read
    /\ isBookmarked' = loads[i].value
    /\ isLoading' = FALSE
    /\ loads' = Without(loads, i)
    /\ UNCHANGED <<auth, isToggling, requests, stored, route, toast>>
    /\ OnlyView

\* getBookmark rejects: setIsBookmarked(false), finally setIsLoading(false)
LoadRejected(i) ==
    /\ i \in DOMAIN loads
    /\ isBookmarked' = FALSE
    /\ isLoading' = FALSE
    /\ loads' = Without(loads, i)
    /\ UNCHANGED <<auth, isToggling, requests, stored, route, toast>>
    /\ OnlyView

\* the user asks for a toggle, by a click or by Enter or Space: handleToggle
\* up to its await, and the render that follows setIsToggling(true)
HandleToggle ==
    /\ route = "/"
    /\ ~isLoading
    /\ IF ~auth.isLoaded
       THEN UNCHANGED <<isToggling, requests, route>>
       ELSE IF auth.userId = Undefined
       THEN /\ route' = "/sign-in"
            /\ UNCHANGED <<isToggling, requests>>
       ELSE IF isToggling
       THEN UNCHANGED <<isToggling, requests, route>>
       ELSE /\ isToggling' = TRUE
            /\ requests' = Append(requests,
                                  [kind |-> IF isBookmarked THEN "remove" ELSE "add"])
            /\ UNCHANGED route
    /\ UNCHANGED <<auth, isBookmarked, isLoading, loads, stored, toast>>
    /\ OnlyView

\* addBookmark or removeBookmark resolves: the row is written, the setter
\* and the success toast follow, finally setIsToggling(false)
RequestResolved ==
    /\ requests # <<>>
    /\ stored' = (Head(requests).kind = "add")
    /\ isBookmarked' = (Head(requests).kind = "add")
    /\ toast' = IF Head(requests).kind = "add" THEN ToastAdded ELSE ToastRemoved
    /\ isToggling' = FALSE
    /\ requests' = Tail(requests)
    /\ UNCHANGED <<auth, isLoading, loads, route>>
    /\ OnlyView

\* addBookmark or removeBookmark rejects: the error toast, finally
\* setIsToggling(false)
RequestRejected(message) ==
    /\ requests # <<>>
    /\ toast' = message
    /\ isToggling' = FALSE
    /\ requests' = Tail(requests)
    /\ UNCHANGED <<auth, isBookmarked, isLoading, loads, stored, route>>
    /\ OnlyView

BookmarkNext ==
    \/ Mount
    \/ \E a \in AuthStates : AuthChanged(a)
    \/ \E i \in DOMAIN loads : BookmarkRead(i)
    \/ \E i \in DOMAIN loads : LoadResolved(i)
    \/ \E i \in DOMAIN loads : LoadRejected(i)
    \/ HandleToggle
    \/ RequestResolved
    \/ \E message \in ToastErrors : RequestRejected(message)

SpecBookmark == BookmarkInit /\ [][BookmarkNext]_vars

\* ================================================================ claims
\* the seven kinds of the specification's taxonomy
TaxonomyKinds ==
    {"API_KEY_MISSING", "API_KEY_INVALID", "NETWORK_ERROR", "TIMEOUT_ERROR",
     "HTTP_ERROR", "API_ERROR", "VALIDATION_ERROR"}

Done == pc = "done"
Failed == Done /\ result.status = "error"
LastOutcome == IF outcomes = <<>> THEN "none" ELSE outcomes[Len(outcomes)]
\* the call ended because fetchWithRetry threw
TransportFailed == Failed /\ LastOutcome \notin {"none", "ok"}
AllOutcomes(kind) == \A i \in DOMAIN outcomes : outcomes[i] = kind

\* C1: the transport attempts until the first success or until 4 attempts have
\* failed: it returns after k attempts having waited the first k-1 delays of
\* 1s, 2s, 4s, it throws only after exactly 4 attempts and the 3 delays, and it
\* never makes a 5th attempt.
C1_AttemptsUntilSuccessOrFourFailures ==
    /\ fetchCalls <= MAX_RETRIES + 1
    /\ pc = "json" => delays = SubSeq(<<1000, 2000, 4000>>, 1, fetchCalls - 1)
    /\ TransportFailed => fetchCalls = MAX_RETRIES + 1 /\ delays = <<1000, 2000, 4000>>

\* C2: a timed-out attempt is a failure like any other: unless it was the 4th
\* attempt, another attempt follows it, so no call ends on a timeout of one of
\* its first 3 attempts.
C2_TimeoutIsRetried ==
    Done => \A i \in DOMAIN outcomes :
                outcomes[i] = "timeout" => i = MAX_RETRIES + 1 \/ i < Len(outcomes)

\* C3: when all 4 attempts end with a non-2xx response, the error surfaced is
\* an HTTP_ERROR carrying the status of the final response.  (Stated for a
\* final status the source itself names HTTP_ERROR: 401 and 403 are the
\* rejected credential of C4, and the source names 408 a timeout.)
C3_HttpErrorAfterRetries ==
    Failed /\ Len(outcomes) = MAX_RETRIES + 1 /\ AllOutcomes("http")
           /\ response.status \notin {401, 403, 408}
        => /\ result.error.errorType = "HTTP_ERROR"
           /\ result.error.statusCode = response.status

\* C4: a call that ends on a 401 or 403 response surfaces API_KEY_INVALID.
C4_RejectedCredentialIsApiKeyInvalid ==
    Failed /\ LastOutcome = "http" /\ response.status \in {401, 403}
        => result.error.errorType = "API_KEY_INVALID"

\* C5: when every attempt fails at the network level the error surfaced is a
\* NETWORK_ERROR and never an HTTP_ERROR, and a call that ends on an HTTP
\* failure is never reported as a NETWORK_ERROR.
C5_NetworkAndHttpFailuresKeptApart ==
    /\ Failed /\ Len(outcomes) = MAX_RETRIES + 1 /\ AllOutcomes("network")
           => result.error.errorType = "NETWORK_ERROR"
    /\ Failed /\ LastOutcome = "http" => result.error.errorType # "NETWORK_ERROR"

\* C6 as stated: every failure surfaced is a TourAPIError whose kind is one of
\* the seven kinds of the taxonomy.
C6_KindIsOneOfSeven ==
    Failed => /\ result.error.name = "TourAPIError"
              /\ result.error.errorType \in TaxonomyKinds

\* C6 as amended: every failure surfaced is a TourAPIError whose kind is one of
\* the seven kinds of the taxonomy or UNKNOWN_ERROR.
C6_KindIsOneOfSevenOrUnknown ==
    Failed => /\ result.error.name = "TourAPIError"
              /\ result.error.errorType \in TaxonomyKinds \cup {"UNKNOWN_ERROR"}

\* a body that is no JSON surfaces as an UNKNOWN_ERROR
C6_Witness ==
    Failed /\ data.kind = "invalid-json" /\ result.error.errorType = "UNKNOWN_ERROR"

\* C7: for every envelope whose resultCode is not "0000" the parser throws a
\* TourAPIError, API_KEY_INVALID for a key-error code and API_ERROR otherwise,
\* whose message carries resultCode and resultMsg.
C7_ErrorEnvelopeRaises ==
    pc = "parsed" /\ data.kind = "envelope" /\ data.resultCode # "0000"
        => /\ parsed.threw
           /\ parsed.value = <<>>
           /\ parsed.error.name = "TourAPIError"
           /\ parsed.error.errorType =
                  IF data.resultCode \in {"SERVICE_KEY_IS_NOT_REGISTERED",
                                          "SERVICE_KEY_IS_NOT_VALID",
                                          "SERVICE_KEY_IS_NULL"}
                  THEN "API_KEY_INVALID" ELSE "API_ERROR"
           /\ Includes(parsed.error.message, data.resultCode)
           /\ Includes(parsed.error.message, data.resultMsg)

C7_Witness ==
    /\ pc = "parsed"
    /\ data.resultCode = "SERVICE_KEY_IS_NULL"
    /\ data.resultMsg = "NODATA_ERROR"
    /\ parsed.error.errorType = "API_KEY_INVALID"

\* body.items is absent
ItemsAbsent(envelope) == envelope.body = Undefined \/ envelope.items = Undefined

\* C8: for a success envelope without body.items the parser returns an empty
\* array and throws nothing, and a list operation returns no items and no error.
C8_AbsentItemsIsEmptyList ==
    Done /\ data.kind = "envelope" /\ data.resultCode = "0000" /\ ItemsAbsent(data)
        => /\ ~parsed.threw
           /\ parsed.value = <<>>
           /\ op \in ListOperations => result = Success(<<>>)

C8_Witness ==
    /\ Done
    /\ op = "getAreaBasedList"
    /\ data.resultCode = "0000"
    /\ data.body = "object"
    /\ data.items = Undefined
    /\ result = Success(<<>>)

\* empty or whitespace only
Blank(value) == \A i \in 1..Len(value) : SubSeq(value, i, i) \in WhiteSpace

RequiredArgumentBlank ==
    \/ op = "searchKeyword" /\ Blank(params.keyword)
    \/ op \in {"getDetailCommon", "getDetailImage", "getDetailPetTour", "getDetailIntro"}
           /\ Blank(params.contentId)
    \/ op = "getDetailIntro" /\ Blank(params.contentTypeId)

\* C9: an operation called with a required argument that is empty or
\* whitespace only fails with VALIDATION_ERROR, and fetch is never called.
C9_BlankArgumentFailsBeforeNetwork ==
    RequiredArgumentBlank
        => /\ Failed
           /\ result.error.errorType = "VALIDATION_ERROR"
           /\ fetchCalls = 0
           /\ outcomes = <<>>

C9_Witness ==
    /\ Failed
    /\ op = "getDetailIntro"
    /\ params.contentId = " a"
    /\ params.contentTypeId = " "
    /\ result.error.errorType = "VALIDATION_ERROR"

\* a success envelope with no record in it
ZeroRecords(envelope) ==
    /\ envelope.kind = "envelope"
    /\ envelope.resultCode = "0000"
    /\ OptionalItem(envelope).tag # "object"
    /\ OptionalItem(envelope).elems = <<>>

\* C10: a single-entity lookup whose response is a success with zero records
\* fails with API_ERROR.
C10_NotFoundIsApiError ==
    Done /\ op \in SingleOperations /\ ZeroRecords(data)
        => Failed /\ result.error.errorType = "API_ERROR"

\* a call is under way or has ended
Called == op # "none"
NoCredentialNow == Falsy(env.NEXT_PUBLIC_TOUR_API_KEY) /\ Falsy(env.TOUR_API_KEY)

\* C11 as stated: whenever neither environment variable holds a credential at
\* the time of a call, the call fails with API_KEY_MISSING and fetch is never
\* called; a call made once a credential is configured calls fetch.
C11_NoCredentialFailsEveryCall ==
    Called =>
        IF NoCredentialNow
        THEN Failed /\ result.error.errorType = "API_KEY_MISSING" /\ fetchCalls = 0
        ELSE fetchCalls >= 1

\* C11: the credential is read at each call.  A call whose required arguments
\* are not blank fails with API_KEY_MISSING, fetch never called, whenever
\* neither variable holds a credential at that time, and calls fetch with the
\* credential of that time once one is configured (the module was loaded with
\* none).  A call with a blank required argument fails with VALIDATION_ERROR
\* either way.
C11_CredentialReadAtEachCall ==
    Called /\ ~RequiredArgumentBlank =>
        IF NoCredentialNow
        THEN Failed /\ result.error.errorType = "API_KEY_MISSING" /\ fetchCalls = 0
        ELSE /\ fetchCalls >= 1
             /\ url.query[1] = Entry("serviceKey", getServiceKey(env).value[1])

\* the credential was configured after the module was loaded, and the call
\* reached the network with it
C11_Witness ==
    /\ op = "getAreaBasedList"
    /\ env.TOUR_API_KEY = "KEY_B"
    /\ env.NEXT_PUBLIC_TOUR_API_KEY = Undefined
    /\ fetchCalls >= 1
    /\ url.query[1].value = "KEY_B"

\* ------------------------------------------------------------ aggregator
\* how many entries of stats satisfy Test
CountOf(stats, Test(_)) == Cardinality({j \in DOMAIN stats : Test(stats[j])})

\* the call made for the i-th promise succeeded
Succeeded(promises, i) == promises[i].state = "fulfilled" /\ promises[i].value # <<>>

\* C12: getRegionStats returns exactly one RegionStat {areaCode, name,
\* count = totalCount} for each area code whose getAreaBasedList call
\* succeeded and none for one whose call failed, and it fails exactly when
\* the area-code lookup failed.
C12_OneEntryPerSucceededRegion ==
    statsCall = "getRegionStats" /\ Settled(regionStats) =>
        IF areaCodes.state = "rejected"
        THEN regionStats.state = "rejected"
        ELSE /\ regionStats.state = "fulfilled"
             /\ DOMAIN regionTasks = IF areaCodes.value = <<>> THEN {}
                                     ELSE DOMAIN areaCodes.value
             /\ \A i \in DOMAIN regionTasks :
                    LET Mine(stat) == stat.areaCode = areaCodes.value[i].code
                        expected == [areaCode |-> areaCodes.value[i].code,
                                     name |-> areaCodes.value[i].name,
                                     count |-> RegionTotalCount(upstream, i)]
                    IN  IF Succeeded(regionTasks, i)
                        THEN /\ CountOf(regionStats.value, Mine) = 1
                             /\ \E j \in DOMAIN regionStats.value :
                                    regionStats.value[j] = expected
                        ELSE CountOf(regionStats.value, Mine) = 0
             /\ Len(regionStats.value)
                    = Cardinality({i \in DOMAIN regionTasks : Succeeded(regionTasks, i)})

\* every region answers totalCount = 150 but the second, whose call fails
C12_Witness ==
    /\ statsCall = "getRegionStats"
    /\ upstream = "even"
    /\ Len(areaCodes.value) = MaxRegions
    /\ ~Succeeded(regionTasks, 2)
    /\ regionStats.state = "fulfilled"
    /\ Len(regionStats.value) = MaxRegions - 1
    /\ \A j \in DOMAIN regionStats.value : regionStats.value[j].count = 150

RECURSIVE UpstreamTotal(_, _)
\* the sum of the upstream's totalCount over the content types in types
UpstreamTotal(dataset, types) ==
    IF types = {} THEN 0
    ELSE LET k == CHOOSE t \in types : TRUE IN
         TypeTotalCount(dataset, k) + UpstreamTotal(dataset, types \ {k})

RECURSIVE CountsUpTo(_, _)
\* the sum of the counts of the first n entries of stats
CountsUpTo(stats, n) ==
    IF n = 0 THEN 0 ELSE stats[n].count + CountsUpTo(stats, n - 1)

\* hundredths is count / totalCount * 100 to the nearest hundredth
NearestHundredth(hundredths, count, totalCount) ==
    LET exact == count * 10000
        given == hundredths * totalCount
    IN  2 * (IF given >= exact THEN given - exact ELSE exact - given) <= totalCount

\* the content types whose call succeeded
SucceededTypes == {k \in DOMAIN typeTasks : Succeeded(typeTasks, k)}

\* C13: getTypeStats with one or more of the 8 per-type calls failing does not
\* raise: it returns the stats of exactly the types whose call succeeded,
\* each percentage taken over the sum of the successful counts only.
C13_FailedTypesLeftOut ==
    statsCall = "getTypeStats" /\ Settled(typeStats) =>
        LET UpstreamCount(k) == TypeTotalCount(upstream, k)
            successfulTotal == UpstreamTotal(upstream, SucceededTypes)
        IN  /\ typeStats.state = "fulfilled"
            /\ Len(typeStats.value) = Cardinality(SucceededTypes)
            /\ \A k \in SucceededTypes :
                   \E j \in DOMAIN typeStats.value :
                       LET stat == typeStats.value[j] IN
                       /\ stat.contentTypeId = CONTENT_TYPE[k]
                       /\ stat.count = UpstreamCount(k)
                       /\ IF successfulTotal = 0 THEN stat.percentage = 0
                          ELSE NearestHundredth(stat.percentage, stat.count, successfulTotal)

\* the call for "12" failed: "39" has 500 of the 1100 counted, 45.45 percent
C13_Witness ==
    /\ statsCall = "getTypeStats"
    /\ upstream = "even"
    /\ typeStats.state = "fulfilled"
    /\ SucceededTypes = DOMAIN CONTENT_TYPE \ {1}
    /\ Len(typeStats.value) = 7
    /\ typeStats.value[7].contentTypeId = "39"
    /\ typeStats.value[7].percentage = 4545

\* C14: every percentage getTypeStats returns is count / (sum of the returned
\* counts) * 100 rounded to 2 decimals; when that sum is zero every
\* percentage is 0; counts of 500 for "39" and 100 for each of the other
\* seven types give 41.67 for "39" and 8.33 for each other type.
C14_PercentageRoundedToTwoDecimals ==
    typeStats.state = "fulfilled" =>
        LET stats == typeStats.value
            total == CountsUpTo(stats, Len(stats))
        IN  /\ \A j \in DOMAIN stats :
                   IF total = 0 THEN stats[j].percentage = 0
                   ELSE NearestHundredth(stats[j].percentage, stats[j].count, total)
            /\ (Len(stats) = 8 /\ \A j \in 1..8 : stats[j].count = IF j = 8 THEN 500 ELSE 100)
                   => \A j \in 1..8 : stats[j].percentage = IF j = 8 THEN 4167 ELSE 833

\* the example of the claim
C14_Witness ==
    /\ typeStats.state = "fulfilled"
    /\ Len(typeStats.value) = 8
    /\ typeStats.value[8].contentTypeId = "39"
    /\ typeStats.value[8].count = 500
    /\ typeStats.value[8].percentage = 4167
    /\ \A j \in 1..7 : typeStats.value[j].count = 100 /\ typeStats.value[j].percentage = 833

\* the entries of a list, as a set
Entries(stats) == {stats[j] : j \in DOMAIN stats}

\* top is the three entries of full with the largest counts (all of them when
\* there are fewer), largest first
LargestThree(top, full) ==
    /\ Len(top) = IF Len(full) < 3 THEN Len(full) ELSE 3
    /\ \A j \in 1..(Len(top) - 1) : top[j].count >= top[j + 1].count
    /\ Entries(top) \subseteq Entries(full)
    /\ Cardinality(Entries(top)) = Len(top)
    /\ \A rest \in Entries(full) \ Entries(top) :
           \A kept \in Entries(top) : rest.count <= kept.count

\* getStatsSummary returned
Summarized == statsCall = "getStatsSummary" /\ summary.state = "fulfilled"

\* C15: in every result of getStatsSummary, topRegions and topTypes are each
\* sorted descending by count, have length min(3, number of available stats),
\* and hold the entries with the largest counts of the respective full list.
C15_TopThreeLargestFirst ==
    Summarized =>
        /\ LargestThree(summary.value[1].topRegions, regionStats.value)
        /\ LargestThree(summary.value[1].topTypes, typeStats.value)

\* eight types in catalogue order 300, 100, 100, 0, 700, 200, 300, 500 and
\* only two regions
C15_Witness ==
    /\ Summarized
    /\ upstream = "mixed"
    /\ Len(typeStats.value) = 8
    /\ Len(summary.value[1].topTypes) = 3
    /\ summary.value[1].topTypes[1].contentTypeId = "28"
    /\ summary.value[1].topTypes[2].contentTypeId = "39"
    /\ summary.value[1].topTypes[3].contentTypeId = "12"
    /\ Len(regionStats.value) = 2
    /\ Len(summary.value[1].topRegions) = 2
    /\ summary.value[1].topRegions[1].count > summary.value[1].topRegions[2].count
    /\ regionStats.value[1].count < regionStats.value[2].count

\* C16: the totalCount of getStatsSummary is the sum of the counts of all the
\* type stats getTypeStats returned, not only of the top three, whatever the
\* region counts are.
C16_TotalCountIsSumOfTypeCounts ==
    Summarized =>
        summary.value[1].totalCount = CountsUpTo(typeStats.value, Len(typeStats.value))

\* the regions sum to another total than the types, and the top three types
\* to less than all of them
C16_Witness ==
    /\ Summarized
    /\ Len(typeStats.value) > 3
    /\ summary.value[1].totalCount = 1200
    /\ CountsUpTo(regionStats.value, Len(regionStats.value)) = 450
    /\ CountsUpTo(summary.value[1].topTypes, 3) = 700

\* in a step, at most one promise of the fan-out changes, and it goes from
\* pending to fulfilled; its siblings stay as they were
OnlyOneSettles(before, after) ==
    DOMAIN before = DOMAIN after =>
        \A i \in DOMAIN before :
            before[i] # after[i] =>
                /\ before[i] = Pending
                /\ after[i].state = "fulfilled"
                /\ \A j \in DOMAIN before \ {i} : after[j] = before[j]

\* the aggregate of a fan-out is still pending while a promise is, and once
\* it is there it holds the value of every promise whose call succeeded
ResultAfterAllSettled(promises, aggregate, Same(_, _)) ==
    promises # <<>> =>
        IF \E i \in DOMAIN promises : promises[i] = Pending
        THEN aggregate = Pending
        ELSE /\ aggregate.state = "fulfilled"
             /\ \A i \in DOMAIN promises :
                    Succeeded(promises, i) =>
                        \E j \in DOMAIN aggregate.value :
                            Same(aggregate.value[j], promises[i].value[1])

SameRegion(a, b) == a = b
SameType(a, b) == a.contentTypeId = b.contentTypeId /\ a.count = b.count

\* C17: the fan-out of the aggregator never short-circuits.  In every
\* interleaving a call that fails changes only its own promise, its siblings
\* stay pending until they settle themselves, the aggregate is produced only
\* once every sibling has settled, and it holds the entry of every sibling
\* that succeeded.
C17_FanOutNeverShortCircuits ==
    [][/\ OnlyOneSettles(regionTasks, regionTasks')
       /\ OnlyOneSettles(typeTasks, typeTasks')
       /\ ResultAfterAllSettled(regionTasks', regionStats', SameRegion)
       /\ ResultAfterAllSettled(typeTasks', typeStats', SameType)]_vars

\* one call has failed, one sibling has succeeded after it or before it, one
\* is still pending, and so is the aggregate
C17_Witness ==
    /\ statsCall = "getRegionStats"
    /\ Len(regionTasks) = MaxRegions
    /\ regionTasks[1] = Fulfilled(<<>>)
    /\ Succeeded(regionTasks, 2)
    /\ regionTasks[MaxRegions] = Pending
    /\ regionStats = Pending

CaughtFor(outcome) ==
    CASE outcome = "http" -> HttpError([status |-> 500, statusText |-> "Internal Server Error"])
      [] outcome = "network" -> PlainError("TypeError", "fetch failed")
      [] outcome = "timeout" -> AbortError

\* what a call that runs alone has done once its attempts have ended as log
\* says and, when attempting is TRUE, one more attempt is under way
AloneAfter(log, attempting) ==
    LET n == Len(log)
        last == IF n = 0 THEN "none" ELSE log[n]
        over == last = "ok" \/ last = "timeout" \/ (n = MAX_RETRIES + 1 /\ ~attempting)
        waited == IF n = 0 THEN 0 ELSE IF over THEN n - 1 ELSE n
    IN  [fetchCalls |-> IF attempting THEN n + 1 ELSE n,
         delays |-> SubSeq(RETRY_DELAYS, 1, waited),
         result |-> IF ~over THEN NoResult
                    ELSE IF last = "ok" THEN Success(<<>>)
                    ELSE Failure(CatchOutcome(CaughtFor(last), n - 1).error)]

\* C19: concurrent calls share no mutable state.  In every interleaving the
\* attempt count, the backoff delays, the pending timeout timer and the
\* result of each call are what they would be had the call run alone with
\* the outcomes of its own attempts.
C19_CallsDoNotInterfere ==
    \A c \in DOMAIN calls :
        LET call == calls[c]
            attempting == call.pc \in {"fetching", "aborted"}
            alone == AloneAfter(call.outcomes, attempting)
        IN  /\ call.fetchCalls = alone.fetchCalls
            /\ call.delays = alone.delays
            /\ call.result = alone.result
            /\ call.timers = IF call.pc = "fetching" THEN {call.fetchCalls - 1} ELSE {}
            /\ call.pc = "done" <=> call.result # NoResult

\* two calls under way at once: the first has failed twice and waits for its
\* third attempt while the second, started later, is in its first attempt
C19_Witness ==
    /\ DOMAIN calls = CallIds
    /\ calls[1].pc = "backoff"
    /\ calls[1].outcomes = <<"http", "network">>
    /\ calls[1].delays = <<1000, 2000>>
    /\ calls[2].pc = "fetching"
    /\ calls[2].retryCount = 0
    /\ calls[2].timers = {0}

ParsedItem ==
    /\ pc = "parsed"
    /\ data.kind = "envelope"
    /\ data.resultCode = "0000"
    /\ data.body # Undefined
    /\ data.items = "object"

\* C21: the parser gives an array for both shapes of item: for a single
\* object the one-element array that holds it, for an array the same
\* elements in the same order.
C21_ItemNormalisedToArray ==
    ParsedItem /\ data.item.tag # "undefined" =>
        /\ ~parsed.threw
        /\ IF data.item.tag = "object"
           THEN /\ Len(parsed.value) = 1
                /\ parsed.value[1] = data.item
           ELSE /\ Len(parsed.value) = Len(data.item.elems)
                /\ \A j \in 1..Len(parsed.value) : parsed.value[j] = data.item.elems[j]

\* a single object, the record numbered MaxItems, comes out as an array of one
C21_Witness ==
    /\ ParsedItem
    /\ data.item.tag = "object"
    /\ data.item.id = MaxItems
    /\ Len(parsed.value) = 1
    /\ parsed.value[1].id = MaxItems

\* ------------------------------------------------------------ user messages
MessagesShown == Len(shown) = 2 /\ \A i \in DOMAIN shown : shown[i].message # ""

\* C22: the user message is distinct for each error kind of the taxonomy (two
\* errors of different kinds never get the same message), and only a
\* VALIDATION_ERROR shows its original message.
C22_MessageDistinctPerKind ==
    MessagesShown =>
        /\ (/\ shown[1].error.errorType \in TaxonomyKinds
            /\ shown[2].error.errorType \in TaxonomyKinds
            /\ shown[1].error.errorType # shown[2].error.errorType)
               => shown[1].message # shown[2].message
        /\ \A i \in DOMAIN shown :
               shown[i].message = shown[i].error.message
                   => shown[i].error.errorType = "VALIDATION_ERROR"

\* ------------------------------------------------------------ request URL
\* the keys of the query string, in its order
QueryKeys == [i \in DOMAIN url.query |-> url.query[i].key]
HasKey(key) == \E i \in DOMAIN url.query : url.query[i].key = key
UrlBuilt == url # NoUrl

\* C23: every client operation puts the common parameters (serviceKey,
\* MobileOS, MobileApp, _type) into the request URL, and an optional parameter
\* (areaCode, contentTypeId) whose value is undefined does not appear in the
\* query string at all.
C23_CommonParamsAndNoUndefinedEntry ==
    UrlBuilt =>
        /\ url.endpoint = Endpoint(op)
        /\ Len(url.query) >= 4
        /\ SubSeq(QueryKeys, 1, 4) = <<"serviceKey", "MobileOS", "MobileApp", "_type">>
        /\ url.query[1].value \notin {Undefined, ""}
        /\ url.query[2].value = DEFAULT_MOBILE_OS
        /\ url.query[3].value = DEFAULT_MOBILE_APP
        /\ url.query[4].value = DEFAULT_TYPE
        /\ params.areaCode = Undefined => ~HasKey("areaCode")
        /\ params.contentTypeId = Undefined => ~HasKey("contentTypeId")
        /\ \A i \in DOMAIN url.query : url.query[i].value # Undefined

\* a list request with no area code and a content type: the URL carries
\* contentTypeId and no areaCode
C23_Witness ==
    /\ UrlBuilt
    /\ op = "getAreaBasedList"
    /\ params.areaCode = Undefined
    /\ params.contentTypeId = "12"
    /\ HasKey("contentTypeId")
    /\ ~HasKey("areaCode")
    /\ fetchCalls >= 1

\* ------------------------------------------------------------ termination
CallRunning == pc \in {"fetching", "aborted", "backoff"}
CallEnded == pc \in {"json", "done"}

\* C24: every call of fetchWithRetry terminates: under fair scheduling, each
\* attempt settling or being aborted by its timeout, the call eventually
\* returns a response or raises an error, after at most MAX_RETRIES + 1
\* attempts and at most MAX_RETRIES backoff waits.
C24_CallTerminates ==
    /\ [](fetchCalls <= MAX_RETRIES + 1 /\ Len(delays) <= MAX_RETRIES)
    /\ CallRunning ~> CallEnded

\* a call that used every attempt and every backoff wait, and ended
C24_Witness ==
    /\ pc = "done"
    /\ fetchCalls = MAX_RETRIES + 1
    /\ Len(delays) = MAX_RETRIES
    /\ result.status = "error"

\* ------------------------------------------------------------ timeout timers
\* C25: within one fetchWithRetry call the timeout timer of an attempt is
\* cleared as soon as that attempt settles, so at most one timer is pending at
\* any moment, no timer is pending during a backoff wait (nor once the call
\* has ended), and the only timer that can fire is the one of the current
\* attempt.
C25_OneTimerOfCurrentAttempt ==
    /\ Cardinality(timers) <= 1
    /\ timers \subseteq {retryCount}
    /\ pc \in {"backoff", "json", "done", "aborted", "idle"} => timers = {}
    /\ pc = "fetching" => timers = {retryCount}

\* the second attempt is running after a backoff wait, with its own timer only
C25_Witness ==
    /\ pc = "fetching"
    /\ retryCount = 1
    /\ Len(delays) = 1
    /\ timers = {1}

\* ------------------------------------------------------------ summary failure
SummaryCalled == statsCall = "getStatsSummary"

\* C26: getStatsSummary fails if and only if the area-code lookup of
\* getRegionStats fails: no combination of failed per-region or per-type
\* calls makes it fail, and when it fails the error is the lookup's
\* TourAPIError unchanged.
C26_SummaryFailsIffLookupFails ==
    SummaryCalled =>
        /\ summary.state = "rejected" <=> areaCodes.state = "rejected"
        /\ summary.state = "rejected" =>
               /\ summary.error = areaCodes.error
               /\ summary.error.name = "TourAPIError"
        /\ regionStats.state = "fulfilled" /\ typeStats.state = "fulfilled"
               => summary.state = "fulfilled"

\* the summary of a run in which every per-region and every per-type call
\* failed
C26_Witness ==
    /\ SummaryCalled
    /\ summary.state = "fulfilled"
    /\ Len(areaCodes.value) = MaxRegions
    /\ regionStats.value = <<>>
    /\ typeStats.value = <<>>

\* ------------------------------------------------------------ type statistics
AllTypeCallsFailed ==
    /\ Len(typeTasks) = Len(CONTENT_TYPE)
    /\ \A k \in DOMAIN typeTasks : typeTasks[k] = Fulfilled(<<>>)

PositionOfArea(code) == CHOOSE i \in DOMAIN areaCodes.value : areaCodes.value[i].code = code
PositionOfType(contentTypeId) == CHOOSE k \in DOMAIN CONTENT_TYPE : CONTENT_TYPE[k] = contentTypeId

\* C28: the entries getRegionStats returns are in the order of the area-code
\* list, and the entries getTypeStats returns in the order of the content-type
\* constants, in every interleaving of the parallel calls: the order in which
\* the calls complete never changes the order of the result.
C28_ResultInListOrder ==
    /\ areaCodes.state = "fulfilled" /\ regionStats.state = "fulfilled" =>
        \A a, b \in DOMAIN regionStats.value :
            a < b => PositionOfArea(regionStats.value[a].areaCode)
                        < PositionOfArea(regionStats.value[b].areaCode)
    /\ typeStats.state = "fulfilled" =>
        \A a, b \in DOMAIN typeStats.value :
            a < b => PositionOfType(typeStats.value[a].contentTypeId)
                        < PositionOfType(typeStats.value[b].contentTypeId)

\* the first and the last region of the list are in the result, in that
\* order, and a region between them failed
C28_Witness ==
    /\ statsCall = "getRegionStats"
    /\ regionStats.state = "fulfilled"
    /\ Len(regionTasks) = MaxRegions
    /\ regionTasks[2] = Fulfilled(<<>>)
    /\ Len(regionStats.value) = MaxRegions - 1
    /\ regionStats.value[1].areaCode = areaCodes.value[1].code
    /\ regionStats.value[MaxRegions - 1].areaCode = areaCodes.value[MaxRegions].code

\* ------------------------------------------------------------ validation first
\* C29: in every operation with a required argument, validation precedes the
\* credential lookup: a call with an empty required argument made while no
\* credential is configured fails with VALIDATION_ERROR, not API_KEY_MISSING,
\* without a request, and getDetailIntro reports the empty contentId before
\* the empty contentTypeId.
C29_ValidationBeforeCredential ==
    /\ Called /\ RequiredArgumentBlank /\ NoCredentialNow =>
        /\ Failed
        /\ result.error.errorType = "VALIDATION_ERROR"
        /\ result.error.errorType # "API_KEY_MISSING"
        /\ fetchCalls = 0
    /\ Called /\ op = "getDetailIntro" /\ IsMissing(params.contentId) =>
        /\ Failed
        /\ result.error = ValidationError("Content ID is required.")

\* getDetailIntro called with both arguments empty while no credential is
\* configured: the error is about the content ID
C29_Witness ==
    /\ Called
    /\ NoCredentialNow
    /\ op = "getDetailIntro"
    /\ IsMissing(params.contentId)
    /\ IsMissing(params.contentTypeId)
    /\ result.error = ValidationError("Content ID is required.")

\* ------------------------------------------------------------ bookmark toggle
\* a toggle has been asked for: its request is under way or has settled
Toggled == requests # <<>> \/ toast # ""
\* in this step a request settles, successfully or not
RequestSettles == requests # <<>> /\ requests' = Tail(requests)
RequestSucceeds == RequestSettles /\ toast' \in {ToastAdded, ToastRemoved}

\* C30: in BookmarkButton, for any sequence of clicks and request
\* completions, at most one add/remove request is in flight at a time (a
\* toggle asked for while isToggling is set is ignored), isBookmarked flips
\* only after the request succeeded and is unchanged when the request fails,
\* and isToggling is false again once the request has settled.
C30_OneToggleAndFlipOnlyOnSuccess ==
    [][/\ Len(requests') <= 1
       /\ isToggling => requests' = requests \/ RequestSettles
       /\ Toggled /\ isBookmarked' # isBookmarked => RequestSucceeds
       /\ RequestSettles /\ ~RequestSucceeds => isBookmarked' = isBookmarked
       /\ RequestSettles => ~isToggling']_vars

====
